---- MODULE Spec2Model ----
(***************************************************************************)
(* A model of the tourism data-preparation utilities.                      *)
(*                                                                         *)
(*   SpecConv     convert_json_dataset_to_chunks / check_existing_chunks   *)
(*                (notebooks/shared/scripts/data_io.py)                    *)
(*   SpecExtract  extract_city_dataset / check_dataset_date_range          *)
(*                (scripts/data_extraction.py)                             *)
(*   SpecTemporal add_seasons (scripts/feature_engineering.py) and the     *)
(*                temporal step of extract_city_dataset                    *)
(*   SpecDownload download_insideairbnb, SpecValidate                      *)
(*                validate_insideairbnb_structure, SpecMerge               *)
(*                merge_listings_reviews                                   *)
(*                (notebooks/shared/scripts/airbnb_utils.py)               *)
(*   SpecClassify classify_tourism_establishment, SpecFilter               *)
(*                filter_by_city_and_establishment_type                    *)
(*                (scripts/data_filtering.py)                              *)
(*   SpecYears    validate_years_in_data                                   *)
(*                (notebooks/shared/scripts/data_validation.py)            *)
(*   SpecCheckFile check_existing_file                                     *)
(*                (notebooks/shared/scripts/data_io.py)                    *)
(*   SpecYelp     download_yelp_with_complete_handling                     *)
(*                (notebooks/shared/scripts/yelp_utils.py)                 *)
(***************************************************************************)
EXTENDS Integers, Sequences, FiniteSets, TLC

\* ------------------------------------------------------------------------
\* Bounds of the model
\* ------------------------------------------------------------------------
MaxLines == 3
MaxChunkSize == 3
MaxCalls == 2
MaxBusinesses == 2
MaxReviews == 2
MaxUsers == 2
MaxBatch == 2
MaxTokens == 2
MaxRows == 2
MaxYelpCalls == 2

\* ------------------------------------------------------------------------
\* Generic helpers
\* ------------------------------------------------------------------------
SeqsUpTo(S, n) == UNION {[1..m -> S] : m \in 0..n}

Range(s) == {s[i] : i \in 1..Len(s)}

None == "None"

\* ------------------------------------------------------------------------
\* data_io.py: the JSON-lines source and the chunk directory
\* ------------------------------------------------------------------------
\* A line of the source file is either the text of a JSON object or text that
\* json.loads rejects.
Malformed == [json |-> FALSE, obj |-> None]
ValidLines == {[json |-> TRUE, obj |-> "a"], [json |-> TRUE, obj |-> "b"]}
Lines == ValidLines \cup {Malformed}
JSONDecodeError == "JSONDecodeError"

Prefixes == {"yelp_business", "yelp_review"}

VARIABLES
    json_file,       \* the source file: a sequence of lines
    output_dir,      \* the directory: a set of files [name, content]
    cv_pc,           \* "idle", "scan", "returned", "raised", "interrupted"
    file_prefix, chunk_size,          \* arguments of the running/last call
    records, chunk_count, total_records, line_num,   \* locals of the call
    cv_ret,          \* the returned tuple, or None
    calls,           \* calls made so far
    warnings,        \* line numbers printed by the "Skipping malformed" print
    written,         \* file names passed to pq.write_table by this call, in order
    dir_before,      \* output_dir when this call started
    partial,         \* prefix -> the chunk files an interrupted call left ({}: none)
    json_status,     \* "ok", "missing" or "unreadable": can json_file be opened
    json_size_mb,    \* json_file.stat().st_size / (1024 * 1024)
    cv_handle,       \* TRUE while the handle of "with open(json_file)" is open
    progress_interval,                \* local of the call
    progress,        \* the "Processed ... chunks" lines printed by this call
    cv_error         \* the exception that ended the call, or None

convVars == <<json_file, output_dir, cv_pc, file_prefix, chunk_size, records,
              chunk_count, total_records, line_num, cv_ret, calls, warnings,
              written, dir_before, partial, json_status, json_size_mb,
              cv_handle, progress_interval, progress, cv_error>>

\* data_extraction.py: extract_city_dataset and check_dataset_date_range
VARIABLES
    ex_fn,           \* the function called: "extract_city_dataset" or
                     \* "check_dataset_date_range"
    business_df,     \* sequence of business rows
    has_business_df, \* FALSE: business_df=None was passed (date range only)
    review_file,     \* sequence of lines
    user_file,       \* sequence of lines
    target_years,    \* [none |-> TRUE] or [none |-> FALSE, years |-> a set]
    city, state,     \* the filter arguments (None: not given)
    ex_pc,           \* "idle", "scan_reviews", "scan_users", "merge", "temporal",
                     \* "scan_range", "count", "returned", "raised"
    ex_i,            \* lines of the current file read so far
    business_ids,    \* the membership set
    reviews, user_ids_needed, users,     \* locals of extract_city_dataset
    df_final,        \* the merged frame, then the returned frame
    min_date, max_date, total_reviews,   \* locals of check_dataset_date_range
    ex_error,        \* the exception that ended the call, or None
    business_columns,                    \* the columns of business_df
    ex_handles       \* the files whose "with open(...)" handle is open

exVars == <<ex_fn, business_df, has_business_df, review_file, user_file,
            target_years, city, state, ex_pc, ex_i, business_ids, reviews,
            user_ids_needed, users, df_final, min_date, max_date,
            total_reviews, ex_error, business_columns, ex_handles>>

\* feature_engineering.py: add_seasons, and the temporal step of
\* extract_city_dataset applied to the same batch
VARIABLES
    tm_dates,        \* the date column of the input frame
    tm_pc,           \* "idle", "returned", "raised"
    tm_fn,           \* the function applied
    tm_out           \* the returned frame

tmVars == <<tm_dates, tm_pc, tm_fn, tm_out>>

\* airbnb_utils.py: download_insideairbnb
VARIABLES
    dl_file,         \* the file at output_path: <<>> (absent) or <<its bytes>>
    dl_city, dl_date, dl_type,           \* the arguments of the call
    dl_pc,           \* "idle", "requesting", "writing", "returned", "raised"
    dl_requests,     \* the URLs of the GET requests of the call
    dl_response,     \* what requests.get gave: a response or an exception
    dl_ret,          \* the returned (success, message), or None
    dl_error,        \* the exception that left the call, or None
    dl_calls,        \* calls made so far
    dl_file_before,  \* dl_file when the call began
    dl_origin,       \* how the file came to be: "none", "preexisting",
                     \* "complete" (a download wrote it), "cut_off" (a write failed)
    dl_history       \* how the calls so far ended, oldest first

dlVars == <<dl_file, dl_city, dl_date, dl_type, dl_pc, dl_requests,
            dl_response, dl_ret, dl_error, dl_calls, dl_file_before,
            dl_origin, dl_history>>

\* airbnb_utils.py: validate_insideairbnb_structure
VARIABLES
    reviews_columns,                     \* reviews_df.columns
    listings_columns,                    \* listings_df.columns
    val_pc,          \* "idle", "returned"
    val_ret          \* the returned (valid, missing_cols), or None

valVars == <<reviews_columns, listings_columns, val_pc, val_ret>>

\* data_filtering.py: classify_tourism_establishment and
\* filter_by_city_and_establishment_type
VARIABLES
    cl_categories,   \* the argument of classify_tourism_establishment
    cl_pc,           \* "idle", "returned"
    cl_ret,          \* the returned label, or None
    ft_df,           \* the business frame df given to the filter
    ft_columns,      \* df.columns
    ft_city, ft_state,                   \* the city and state arguments
    establishment_types,                 \* a str or a list of str
    ft_pc,           \* "idle", "returned", "raised"
    df_filtered,     \* the returned frame
    ft_error         \* the exception that left the call, or None

flVars == <<cl_categories, cl_pc, cl_ret, ft_df, ft_columns, ft_city,
            ft_state, establishment_types, ft_pc, df_filtered, ft_error>>

\* data_validation.py: validate_years_in_data
VARIABLES
    yr_path,         \* file_path, as the pieces of its name
    yr_file,         \* the file: [status, columns, rows]
    expected_years,  \* [int |-> TRUE, value |-> y] or [int |-> FALSE, list |-> l]
    date_column, sample_size,            \* the other arguments
    yr_pc,           \* "idle", "returned"
    yr_ret           \* the returned [valid, info], or <<>>

yrVars == <<yr_path, yr_file, expected_years, date_column, sample_size,
            yr_pc, yr_ret>>

\* data_io.py: check_existing_file
VARIABLES
    cf_file,         \* the file at file_path: [exists, size_mb, status, columns, rows]
    cf_file_type,    \* the file_type argument
    show_info,       \* the show_info argument
    cf_pc,           \* "idle", "returned", "raised"
    cf_ret,          \* the returned [exists, info], or <<>>
    cf_printed,      \* the lines printed by the call
    cf_error         \* the exception that left the call, or None

cfVars == <<cf_file, cf_file_type, show_info, cf_pc, cf_ret, cf_printed,
            cf_error>>

\* airbnb_utils.py: merge_listings_reviews
VARIABLES
    mg_listings,     \* the rows of listings.csv.gz
    mg_reviews,      \* the rows of reviews.csv.gz
    year_filter,     \* [kind |-> "None"], [kind |-> "int", value |-> y] or
                     \* [kind |-> "list", list |-> l]
    mg_pc,           \* "idle", "returned", "raised"
    merged,          \* the returned frame
    mg_error         \* the exception that left the call, or None

mgVars == <<mg_listings, mg_reviews, year_filter, mg_pc, merged, mg_error>>

\* yelp_utils.py: download_yelp_with_complete_handling
VARIABLES
    download_dir,    \* the three dataset files: "absent", "good" (a record with
                     \* the expected columns), "lacks_columns" or "empty"
    target_files,    \* [none |-> TRUE, list |-> <<>>] or [none |-> FALSE, list |-> l]
    validate,        \* the validate argument
    yl_pc,           \* "idle", "downloading", "returned"
    yl_ret,          \* the returned [success, message, status, validation_results]
    yl_api_calls,    \* invocations of kaggle.api.dataset_download_files in this call
    yl_calls,        \* calls made so far
    yl_dir_before    \* download_dir when the call began

ylVars == <<download_dir, target_files, validate, yl_pc, yl_ret, yl_api_calls,
            yl_calls, yl_dir_before>>

\* the parts a utility call leaves alone
coreVars == <<convVars, exVars, tmVars, dlVars, valVars>>

utilVars == <<flVars, yrVars, cfVars, mgVars, ylVars>>

vars == <<coreVars, utilVars>>

\* json.loads(line) raises json.JSONDecodeError, or returns the object
json_loads_raises(line) == ~line.json
json_loads(line) == line.obj

DigitChars == <<"0", "1", "2", "3", "4", "5", "6", "7", "8", "9">>

RECURSIVE Digits(_)
Digits(n) == IF n < 10 THEN <<DigitChars[n + 1]>>
             ELSE Digits(n \div 10) \o <<DigitChars[(n % 10) + 1]>>

RECURSIVE ZeroPad(_, _)
ZeroPad(s, width) == IF Len(s) >= width THEN s ELSE ZeroPad(<<"0">> \o s, width)

\* f"{chunk_count:05d}"
PadWidth == 5
\* mutant: the index is written without zero padding
Fmt05d_unpadded(n) == Digits(n)
Fmt05d(n) == ZeroPad(Digits(n), PadWidth)

\* f"{file_prefix}_chunk_{chunk_count:05d}.parquet"
chunk_filename(prefix, n) == <<prefix, "_chunk_">> \o Fmt05d(n) \o <<".parquet">>

\* directory.glob(f"{file_prefix}_chunk_*.parquet")
glob(directory, prefix) ==
    {f \in directory : /\ Len(f.name) >= 3
                       /\ f.name[1] = prefix
                       /\ f.name[2] = "_chunk_"
                       /\ f.name[Len(f.name)] = ".parquet"}

\* mutant: the existence check never finds chunks
check_existing_chunks_never(directory, prefix) == <<FALSE, 0>>
check_existing_chunks(directory, prefix) ==
    LET chunks == glob(directory, prefix)
    IN  IF chunks = {} THEN <<FALSE, 0>> ELSE <<TRUE, Cardinality(chunks)>>

\* pq.write_table(table, output_path): creates the file or replaces its content
write_table(directory, name, content) ==
    {f \in directory : f.name # name} \cup {[name |-> name, content |-> content]}

\* pq.write_table stopped before it ended (spec section 5: file writes are not
\* atomic): the file is there and holds the beginning of a parquet file
write_table_cut_off(directory, name) ==
    {f \in directory : f.name # name}
        \cup {[name |-> name, content |-> <<>>, truncated |-> TRUE]}

\* pd.read_parquet(sample_chunk), line 185, in no try block: a file without
\* the parquet footer cannot be read (pyarrow's ArrowInvalid)
read_parquet_raises(file) == "truncated" \in DOMAIN file

\* mutant: the chunk is flushed one record late
chunk_full_late(recs, k) == Len(recs) > k
\* "if len(records) >= chunk_size", line 211
chunk_full(recs, k) == Len(recs) >= k

\* mutant: the warning names the 0-based line number
warning_line_zero_based(n) == n
\* the line number in the "Skipping malformed JSON" warning, line 230
warning_line(n) == n + 1

\* A line whose bytes are no text in the file's encoding (only sources of the
\* I/O-failure specifications hold it).  The text layer of open() decodes the
\* file a block (8192 bytes) at a time, and an iteration reads a further
\* block only when its line is not yet complete in what was decoded; the
\* line carries the iteration, counted from 1, whose read decodes the block
\* holding its bad bytes: 1 when they lie in the first block, the line's own
\* number when the line before ends in an earlier block.
Undecodable(k) == [json |-> FALSE, obj |-> "undecodable", iteration |-> k]

is_undecodable(line) == "iteration" \in DOMAIN line

\* the layouts a file can have: the block with a line's bad bytes is read no
\* later than the line itself, and no earlier than the block with the bad
\* bytes of a line before it
block_layout(file) ==
    \A i \in 1..Len(file) :
        is_undecodable(file[i]) =>
            /\ file[i].iteration \in 1..i
            /\ \A j \in 1..(i - 1) : is_undecodable(file[j]) =>
                                          file[j].iteration <= file[i].iteration

\* "for line_num, line in enumerate(f)", line 204: the iteration after n
\* lines raises UnicodeDecodeError when its read decodes bad bytes
decode_raises(file, n) ==
    \E i \in 1..Len(file) :
        is_undecodable(file[i]) /\ file[i].iteration = n + 1

\* lines 193-197
SizeThresholdMB == 500
SmallFileInterval == 10
LargeFileInterval == 50
\* mutant: the two intervals are swapped
progress_interval_of_swapped(size_mb) ==
    IF size_mb < SizeThresholdMB THEN LargeFileInterval ELSE SmallFileInterval
progress_interval_of(size_mb) ==
    IF size_mb < SizeThresholdMB THEN SmallFileInterval ELSE LargeFileInterval

\* "if chunk_count % progress_interval == 0", line 226
progress_due(count, interval) == count % interval = 0

\* mutant: the estimate adds instead of multiplying
estimated_total_sum(count, sample_df) == count + Len(sample_df)
\* "estimated_total = count * len(sample_df)", line 186
estimated_total(count, sample_df) == count * Len(sample_df)

\* mutant: an exception leaves the handle of the with block open
with_exit_on_error_leak(handle) == handle
\* leaving "with open(...) as f" through an exception closes the handle
with_exit_on_error(handle) == FALSE

\* mutant: opening the source never fails
open_raises_never(status) == FALSE
\* json_file.stat(), line 193, needs the file to be there; open(json_file),
\* line 203, needs it to be there and readable
stat_raises(status) == status = "missing"
open_raises(status) == status # "ok"

ConvLocalsStart ==
    /\ output_dir = {}
    /\ cv_pc = "idle"
    /\ file_prefix = None /\ chunk_size = 0
    /\ records = <<>> /\ chunk_count = 0 /\ total_records = 0 /\ line_num = 0
    /\ cv_ret = None
    /\ calls = 0
    /\ warnings = <<>> /\ written = <<>>
    /\ dir_before = {}
    /\ partial = [p \in Prefixes |-> {}]
    /\ cv_handle = FALSE
    /\ progress_interval = 0 /\ progress = <<>>
    /\ cv_error = None

\* a small readable source and an empty directory
ConvStart ==
    /\ json_file \in SeqsUpTo(Lines, MaxLines)
    /\ json_status = "ok"
    /\ json_size_mb = 1
    /\ ConvLocalsStart

\* convert_json_dataset_to_chunks, lines 179-203: the existence check, then
\* the early return, or the stat and the open of the source and the start of
\* the scan.
Call(p, k) ==
    /\ cv_pc \in {"idle", "returned", "raised", "interrupted"}
    /\ calls < MaxCalls
    /\ calls' = calls + 1
    /\ file_prefix' = p /\ chunk_size' = k
    /\ dir_before' = output_dir
    /\ warnings' = <<>> /\ written' = <<>> /\ progress' = <<>>
    /\ records' = <<>> /\ chunk_count' = 0 /\ total_records' = 0 /\ line_num' = 0
    /\ LET ec == check_existing_chunks(output_dir, p)
       IN  IF ec[1]
           THEN \* lines 184-187; glob yields the files in directory order
                \E sample_chunk \in glob(output_dir, p) :
                  /\ IF read_parquet_raises(sample_chunk)
                     THEN /\ cv_pc' = "raised" /\ cv_error' = "ArrowInvalid"
                          /\ cv_ret' = None
                     ELSE /\ cv_ret' = [success |-> TRUE, chunk_count |-> ec[2],
                                        total_records |->
                                            estimated_total(ec[2],
                                                            sample_chunk.content)]
                          /\ cv_pc' = "returned" /\ cv_error' = None
                  /\ UNCHANGED <<cv_handle, progress_interval>>
           ELSE IF stat_raises(json_status)
           THEN \* json_file.stat(), line 193
                /\ cv_pc' = "raised" /\ cv_error' = "FileNotFoundError"
                /\ cv_ret' = None
                /\ UNCHANGED <<cv_handle, progress_interval>>
           ELSE IF open_raises(json_status)
           THEN \* open(json_file, 'r'), line 203
                /\ cv_pc' = "raised" /\ cv_error' = "PermissionError"
                /\ cv_ret' = None
                /\ progress_interval' = progress_interval_of(json_size_mb)
                /\ UNCHANGED cv_handle
           ELSE /\ cv_ret' = None /\ cv_error' = None
                /\ progress_interval' = progress_interval_of(json_size_mb)
                /\ cv_handle' = TRUE
                /\ cv_pc' = "scan"
    /\ UNCHANGED <<json_file, output_dir, partial, json_status, json_size_mb>>
    /\ UNCHANGED <<exVars, tmVars, dlVars, valVars, utilVars>>

\* One iteration of the for loop, lines 204-231.
ReadLine ==
    /\ cv_pc = "scan"
    /\ line_num < Len(json_file)
    /\ LET line == json_file[line_num + 1]
           record == json_loads(line)
       IN  IF decode_raises(json_file, line_num)
           THEN \* the iteration over f raises before it yields a line, no
                \* handler catches it
                /\ cv_pc' = "raised" /\ cv_error' = "UnicodeDecodeError"
                /\ cv_handle' = with_exit_on_error(cv_handle)
                /\ UNCHANGED <<line_num, records, chunk_count, total_records,
                               output_dir, written, warnings, progress>>
           ELSE /\ line_num' = line_num + 1
                /\ IF json_loads_raises(line)
                   THEN /\ warnings' = Append(warnings, warning_line(line_num))
                        /\ UNCHANGED <<records, chunk_count, total_records, output_dir,
                                       written, progress, cv_pc, cv_error, cv_handle>>
                   ELSE LET recs == Append(records, record)
                        IN  /\ total_records' = total_records + 1
                            /\ warnings' = warnings
                            /\ UNCHANGED <<cv_pc, cv_error, cv_handle>>
                            /\ IF chunk_full(recs, chunk_size)
                               THEN /\ output_dir' = write_table(output_dir,
                                           chunk_filename(file_prefix, chunk_count), recs)
                                    /\ written' = Append(written,
                                           chunk_filename(file_prefix, chunk_count))
                                    /\ records' = <<>>
                                    /\ chunk_count' = chunk_count + 1
                                    /\ progress' =
                                          IF progress_due(chunk_count + 1, progress_interval)
                                          THEN Append(progress,
                                                      [chunks |-> chunk_count + 1,
                                                       records |-> total_records + 1])
                                          ELSE progress
                               ELSE /\ records' = recs
                                    /\ UNCHANGED <<output_dir, written, chunk_count, progress>>
    /\ UNCHANGED <<json_file, file_prefix, chunk_size, cv_ret, calls,
                   dir_before, partial, json_status, json_size_mb,
                   progress_interval>>
    /\ UNCHANGED <<exVars, tmVars, dlVars, valVars, utilVars>>

\* An iteration whose pq.write_table fails (disk full, directory gone): the
\* OSError leaves the with block and the function; write_table removes the
\* file it began.
WriteFails ==
    /\ cv_pc = "scan"
    /\ line_num < Len(json_file)
    /\ ~decode_raises(json_file, line_num)
    /\ LET line == json_file[line_num + 1]
       IN  /\ line.json
           /\ chunk_full(Append(records, json_loads(line)), chunk_size)
           /\ records' = Append(records, json_loads(line))
    /\ line_num' = line_num + 1
    /\ total_records' = total_records + 1
    /\ cv_pc' = "raised" /\ cv_error' = "OSError"
    /\ cv_handle' = with_exit_on_error(cv_handle)
    /\ UNCHANGED <<json_file, output_dir, file_prefix, chunk_size, chunk_count,
                   cv_ret, calls, warnings, written, dir_before, partial,
                   json_status, json_size_mb, progress_interval, progress>>
    /\ UNCHANGED <<exVars, tmVars, dlVars, valVars, utilVars>>

\* End of file: the with block ends, then the trailing partial chunk and the
\* return, lines 231-251.
Finish ==
    /\ cv_pc = "scan"
    /\ line_num = Len(json_file)
    /\ cv_handle' = FALSE
    /\ IF records # <<>>
       THEN /\ output_dir' = write_table(output_dir,
                   chunk_filename(file_prefix, chunk_count), records)
            /\ written' = Append(written, chunk_filename(file_prefix, chunk_count))
            /\ chunk_count' = chunk_count + 1
       ELSE UNCHANGED <<output_dir, written, chunk_count>>
    /\ cv_ret' = [success |-> TRUE, chunk_count |-> chunk_count',
                  total_records |-> total_records]
    /\ cv_pc' = "returned"
    /\ UNCHANGED <<json_file, file_prefix, chunk_size, records, total_records,
                   line_num, calls, warnings, dir_before, partial, json_status,
                   json_size_mb, progress_interval, progress, cv_error>>
    /\ UNCHANGED <<exVars, tmVars, dlVars, valVars, utilVars>>

\* End of file with a trailing partial chunk whose pq.write_table fails,
\* lines 234-243: the handle was closed when the with block ended.
TailWriteFails ==
    /\ cv_pc = "scan"
    /\ line_num = Len(json_file)
    /\ records # <<>>
    /\ cv_handle' = FALSE
    /\ cv_pc' = "raised" /\ cv_error' = "OSError"
    /\ UNCHANGED <<json_file, output_dir, file_prefix, chunk_size, records,
                   chunk_count, total_records, line_num, cv_ret, calls, warnings,
                   written, dir_before, partial, json_status, json_size_mb,
                   progress_interval, progress>>
    /\ UNCHANGED <<exVars, tmVars, dlVars, valVars, utilVars>>

\* The process is stopped between two loop iterations (spec section 5: manual
\* interruption); what is on disk stays, the locals and the handle are lost.
\* The stop that falls inside a pq.write_table is InterruptWrite.
Interrupt ==
    /\ cv_pc = "scan"
    /\ cv_pc' = "interrupted"
    /\ cv_handle' = with_exit_on_error(cv_handle)
    /\ partial' = IF partial[file_prefix] = {}
                  THEN [partial EXCEPT ![file_prefix] = glob(output_dir, file_prefix)]
                  ELSE partial
    /\ UNCHANGED <<json_file, output_dir, file_prefix, chunk_size, records,
                   chunk_count, total_records, line_num, cv_ret, calls, warnings,
                   written, dir_before, json_status, json_size_mb,
                   progress_interval, progress, cv_error>>
    /\ UNCHANGED <<exVars, tmVars, dlVars, valVars, utilVars>>

\* The process is stopped (killed, crashed, interrupted) inside a
\* pq.write_table, the one of the loop at line 216 or the trailing one at line
\* 238: the chunk file it began stays on disk cut off, chunk_count was not yet
\* incremented and records not yet emptied.
InterruptWrite ==
    /\ cv_pc = "scan"
    /\ \/ /\ line_num < Len(json_file)
          /\ ~decode_raises(json_file, line_num)
          /\ LET line == json_file[line_num + 1]
             IN  /\ line.json
                 /\ chunk_full(Append(records, json_loads(line)), chunk_size)
                 /\ records' = Append(records, json_loads(line))
          /\ line_num' = line_num + 1
          /\ total_records' = total_records + 1
          /\ cv_handle' = with_exit_on_error(cv_handle)
       \/ /\ line_num = Len(json_file)
          /\ records # <<>>
          /\ cv_handle' = FALSE
          /\ UNCHANGED <<records, line_num, total_records>>
    /\ output_dir' = write_table_cut_off(output_dir,
                          chunk_filename(file_prefix, chunk_count))
    /\ cv_pc' = "interrupted"
    /\ partial' = IF partial[file_prefix] = {}
                  THEN [partial EXCEPT ![file_prefix] = glob(output_dir', file_prefix)]
                  ELSE partial
    /\ UNCHANGED <<json_file, file_prefix, chunk_size, chunk_count, cv_ret, calls,
                   warnings, written, dir_before, json_status, json_size_mb,
                   progress_interval, progress, cv_error>>
    /\ UNCHANGED <<exVars, tmVars, dlVars, valVars, utilVars>>

\* Between two calls the source file gets a line more or a line less.
ChangeSource ==
    /\ cv_pc \in {"returned", "interrupted"}
    /\ cv_pc' = "idle"
    /\ \/ \E l \in Lines : /\ Len(json_file) < MaxLines
                           /\ json_file' = Append(json_file, l)
       \/ /\ json_file # <<>>
          /\ json_file' = SubSeq(json_file, 1, Len(json_file) - 1)
    /\ UNCHANGED <<output_dir, file_prefix, chunk_size, records, chunk_count,
                   total_records, line_num, cv_ret, calls, warnings, written,
                   dir_before, partial, json_status, json_size_mb, cv_handle,
                   progress_interval, progress, cv_error>>
    /\ UNCHANGED <<exVars, tmVars, dlVars, valVars, utilVars>>

\* After a call failed to open the source, the file is put in place or made
\* readable.
RestoreSource ==
    /\ cv_pc = "raised"
    /\ json_status # "ok"
    /\ json_status' = "ok"
    /\ cv_pc' = "idle"
    /\ UNCHANGED <<json_file, output_dir, file_prefix, chunk_size, records,
                   chunk_count, total_records, line_num, cv_ret, calls, warnings,
                   written, dir_before, partial, json_size_mb, cv_handle,
                   progress_interval, progress, cv_error>>
    /\ UNCHANGED <<exVars, tmVars, dlVars, valVars, utilVars>>

\* the conversion in an environment without I/O failures
NextConv ==
    \/ \E p \in Prefixes, k \in 1..MaxChunkSize : Call(p, k)
    \/ ReadLine
    \/ Finish
    \/ Interrupt
    \/ ChangeSource

\* a source that may be missing or unreadable at first
OpenStart ==
    /\ json_file \in SeqsUpTo(Lines, MaxLines)
    /\ json_status \in {"ok", "missing", "unreadable"}
    /\ json_size_mb = 1
    /\ ConvLocalsStart

NextOpen ==
    \/ \E p \in Prefixes, k \in 1..MaxChunkSize : Call(p, k)
    \/ ReadLine
    \/ Finish
    \/ RestoreSource

\* sources of many valid lines, just below and at the size threshold
MaxProgressLines == 51
ProgressChunkSizes == {1, 2}
ProgressStart ==
    /\ json_file \in {[i \in 1..n |-> [json |-> TRUE, obj |-> "a"]] :
                         n \in 0..MaxProgressLines}
    /\ json_status = "ok"
    /\ json_size_mb \in {SizeThresholdMB - 1, SizeThresholdMB}
    /\ ConvLocalsStart

NextProgress ==
    \/ \E k \in ProgressChunkSizes : Call("yelp_review", k)
    \/ ReadLine
    \/ Finish

\* ------------------------------------------------------------------------
\* Dates, as pandas and str.split see them
\* ------------------------------------------------------------------------
\* A date string "YYYY-MM-DD" is the tuple <<YYYY, MM, DD>>; a missing date
\* (None: a JSON null, a null cell of a frame) is the empty tuple.  A nullable
\* number is <<n>> or NaN.
NoDate == <<>>
NaT == <<>>
NaN == <<>>

IsLeap(y) == (y % 4 = 0 /\ y % 100 # 0) \/ y % 400 = 0

DaysInMonth(y, m) ==
    IF m = 2 THEN (IF IsLeap(y) THEN 29 ELSE 28)
    ELSE IF m \in {4, 6, 9, 11} THEN 30 ELSE 31

ValidDate(d) == /\ d[2] \in 1..12
                /\ d[3] \in 1..DaysInMonth(d[1], d[2])

\* pd.to_datetime(column) with the default errors="raise": a missing value
\* becomes NaT, a string that is no calendar date raises.
to_datetime_raises(column) ==
    \E i \in 1..Len(column) : column[i] # NoDate /\ ~ValidDate(column[i])

to_datetime(d) == IF d = NoDate THEN NaT ELSE d

dt_year(ts) == IF ts = NaT THEN NaN ELSE <<ts[1]>>
dt_month(ts) == IF ts = NaT THEN NaN ELSE <<ts[2]>>
dt_quarter(ts) == IF ts = NaT THEN NaN ELSE <<((ts[2] - 1) \div 3) + 1>>

RECURSIVE DaysBeforeMonth(_, _)
DaysBeforeMonth(y, m) ==
    IF m = 1 THEN 0 ELSE DaysBeforeMonth(y, m - 1) + DaysInMonth(y, m - 1)

\* the proleptic Gregorian ordinal; day 1 is Monday 0001-01-01
ToOrdinal(ts) ==
    LET y == ts[1] - 1
    IN  365 * y + (y \div 4) - (y \div 100) + (y \div 400)
        + DaysBeforeMonth(ts[1], ts[2]) + ts[3]

\* Series.dt.dayofweek: Monday is 0
dt_dayofweek(ts) == IF ts = NaT THEN NaN ELSE <<(ToOrdinal(ts) + 6) % 7>>

\* "month in [12, 1, 2]" for a month that is a number or NaN
InList(month, list) == month # NaN /\ month[1] \in list

\* mutant: December is counted with Fall
get_season_december_fall(month) ==
    IF InList(month, {1, 2}) THEN "Winter"
    ELSE IF InList(month, {3, 4, 5}) THEN "Spring"
    ELSE IF InList(month, {6, 7, 8}) THEN "Summer"
    ELSE "Fall"

\* extract_city_dataset.get_season, data_extraction.py lines 302-310
get_season(month) ==
    IF InList(month, {12, 1, 2}) THEN "Winter"
    ELSE IF InList(month, {3, 4, 5}) THEN "Spring"
    ELSE IF InList(month, {6, 7, 8}) THEN "Summer"
    ELSE "Fall"

\* add_seasons.get_season, feature_engineering.py lines 97-101
add_seasons_get_season(month) ==
    IF InList(month, {12, 1, 2}) THEN "Winter"
    ELSE IF InList(month, {3, 4, 5}) THEN "Spring"
    ELSE IF InList(month, {6, 7, 8}) THEN "Summer"
    ELSE "Fall"

\* data_extraction.py lines 297-312, on a frame with a review_date column
extract_temporal_fields(df) ==
    [i \in 1..Len(df) |->
        LET ts == to_datetime(df[i].review_date)
        IN  [year |-> dt_year(ts), month |-> dt_month(ts),
             season |-> get_season(dt_month(ts))]
            @@ [df[i] EXCEPT !.review_date = ts]]

\* feature_engineering.py lines 89-103
add_seasons(df) ==
    [i \in 1..Len(df) |->
        LET ts == to_datetime(df[i].review_date)
        IN  [year |-> dt_year(ts), month |-> dt_month(ts),
             day_of_week |-> dt_dayofweek(ts), quarter |-> dt_quarter(ts),
             season |-> add_seasons_get_season(dt_month(ts))]
            @@ [df[i] EXCEPT !.review_date = ts]]

DateColumn(df) == [i \in 1..Len(df) |-> df[i].review_date]

\* ------------------------------------------------------------------------
\* data_extraction.py: the inputs
\* ------------------------------------------------------------------------
BusinessRows ==
    {[business_id |-> "B1", city |-> "New Orleans", state |-> "LA", name |-> "Cafe"],
     [business_id |-> "B2", city |-> "New Orleans", state |-> "LA", name |-> "Inn"],
     [business_id |-> "B2", city |-> "New Orleans", state |-> "TX", name |-> "Inn"],
     [business_id |-> "B2", city |-> "Metairie", state |-> "LA", name |-> "Inn"]}

D2013 == <<2013, 1, 15>>
D2015 == <<2015, 6, 15>>
BadDate == <<2013, 13, 45>>

\* every review has "stars" and "text" and none of the keys "useful", "funny",
\* "cool"; the last one has "date": null
ReviewObjects ==
    {[stars |-> 5, text |-> "t"] @@ o : o \in
        {[business_id |-> "B1", user_id |-> "U1", date |-> D2013],
         [business_id |-> "B1", user_id |-> "U2", date |-> D2015],
         [business_id |-> "B2", user_id |-> "U1", date |-> D2013],
         [business_id |-> "B1", user_id |-> "U1", date |-> BadDate],
         [business_id |-> "B1", user_id |-> "U1", date |-> NoDate]}}

ReviewLines == {[json |-> TRUE, obj |-> o] : o \in ReviewObjects} \cup {Malformed}

\* the review on line i carries review_id i
WithReviewId(line, i) ==
    IF line.json THEN [json |-> TRUE, obj |-> [review_id |-> i] @@ line.obj]
    ELSE line

ReviewFiles ==
    UNION {{[i \in 1..m |-> WithReviewId(f[i], i)] : f \in [1..m -> ReviewLines]}
           : m \in 0..MaxReviews}

UserLines ==
    {[json |-> TRUE, obj |-> [user_id |-> "U1", name |-> "Ann"]],
     [json |-> TRUE, obj |-> [user_id |-> "U2", name |-> "Bob"]],
     Malformed}

AllYears == [none |-> TRUE, years |-> {}]
TargetYears == {AllYears, [none |-> FALSE, years |-> {2013}],
                [none |-> FALSE, years |-> {2013, 2015}]}

\* ------------------------------------------------------------------------
\* data_extraction.py: extract_city_dataset
\* ------------------------------------------------------------------------
\* business_df[(business_df["city"] == city) & (business_df["state"] == state)]
business_df_city(df, c, s) == SelectSeq(df, LAMBDA b : b.city = c /\ b.state = s)

\* the columns of pd.DataFrame(list of dicts): none when the list is empty
Columns(rows) == IF rows = <<>> THEN {} ELSE DOMAIN rows[1]

\* left.merge(right, on=key, how="left") raises KeyError when a frame has no
\* such column
merge_raises(left, right, key) == key \notin Columns(left) \/ key \notin Columns(right)

RECURSIVE merge_left(_, _, _, _)
merge_left(left, right, key, nulls) ==
    IF left = <<>> THEN <<>>
    ELSE LET l == Head(left)
             matches == SelectSeq(right, LAMBDA r : r[key] = l[key])
             rows == IF matches = <<>> THEN <<l @@ nulls>>
                     ELSE [j \in 1..Len(matches) |-> l @@ matches[j]]
         IN  rows \o merge_left(Tail(left), right, key, nulls)

\* dict.get(key, default)
dict_get(dict, key, default) ==
    IF key \in DOMAIN dict THEN dict[key] ELSE default

\* the dict appended at lines 216-226
review_dict(review) ==
    [review_id |-> review.review_id, business_id |-> review.business_id,
     user_id |-> review.user_id, review_stars |-> review.stars,
     review_date |-> review.date, review_text |-> review.text,
     useful |-> dict_get(review, "useful", 0),
     funny |-> dict_get(review, "funny", 0),
     cool |-> dict_get(review, "cool", 0)]

\* the dict appended at lines 249-255
user_dict(user) == [user_id |-> user.user_id, user_name |-> user.name]

\* lines 270-292: the business columns kept and renamed
business_df_clean(df) ==
    [i \in 1..Len(df) |-> [business_id |-> df[i].business_id,
                           business_name |-> df[i].name,
                           city |-> df[i].city, state |-> df[i].state]]

NullUser == [user_name |-> None]
NullBusiness == [business_name |-> None, city |-> None, state |-> None]

\* "(target_years is None) or (year in target_years)", line 214
year_wanted(ty, year) == ty.none \/ year \in ty.years

\* the columns business_df must have by the docstring, line 160, and the
\* columns selected at lines 270-284
BusinessRequired == {"business_id", "city", "state"}
BusinessSelected == {"business_id", "name", "city", "state", "postal_code",
                     "latitude", "longitude", "stars", "review_count",
                     "is_open", "categories"}

\* mutant: only the documented columns are selected
select_raises_required(columns) == ~(BusinessRequired \subseteq columns)
\* business_df_city[[...]], lines 270-284: KeyError when a column is absent
select_raises(columns) == ~(BusinessSelected \subseteq columns)

ExtractLocalsStart ==
    /\ ex_pc = "idle" /\ ex_i = 0
    /\ business_ids = {}
    /\ reviews = <<>> /\ user_ids_needed = {} /\ users = <<>>
    /\ df_final = <<>>
    /\ min_date = NoDate /\ max_date = NoDate /\ total_reviews = 0
    /\ ex_error = None
    /\ ex_handles = {}

\* the arguments of a call of one of the three functions, the business
\* frame drawn from frames
ExtractArgs(frames) ==
    /\ ex_fn \in {"extract_city_dataset", "check_dataset_date_range",
                  "count_records"}
    /\ review_file \in ReviewFiles
    /\ CASE ex_fn = "extract_city_dataset" ->
              /\ business_df \in frames
              /\ business_columns \in {BusinessSelected, BusinessRequired}
              /\ has_business_df = TRUE
              /\ user_file \in SeqsUpTo(UserLines, MaxUsers)
              /\ target_years \in TargetYears
              /\ city = "New Orleans" /\ state = "LA"
         [] ex_fn = "check_dataset_date_range" ->
              /\ business_df \in frames
              /\ business_columns = BusinessSelected
              /\ has_business_df \in BOOLEAN
              /\ has_business_df = FALSE => business_df = <<>>
              /\ user_file = <<>>
              /\ target_years = AllYears
              /\ city \in {None, "New Orleans"}
              /\ state \in {None, "LA"}
         [] ex_fn = "count_records" ->
              /\ business_df = <<>>
              /\ business_columns = BusinessSelected
              /\ has_business_df = FALSE
              /\ user_file = <<>>
              /\ target_years = AllYears
              /\ city = None /\ state = None

ExtractStart ==
    /\ ExtractArgs(SeqsUpTo(BusinessRows, MaxBusinesses))
    /\ ExtractLocalsStart

\* leaving a with block through an exception, for the set of open handles
close_on_error(handles) == {h \in handles : with_exit_on_error(TRUE)}

\* lines 184-206: the city filter and the opening of the review file
ExtractCall ==
    /\ ex_pc = "idle" /\ ex_fn = "extract_city_dataset"
    /\ ex_handles' = {"review_file"}
    /\ business_ids' = {b.business_id : b \in Range(business_df_city(business_df, city, state))}
    /\ ex_pc' = "scan_reviews"
    /\ UNCHANGED <<ex_fn, business_df, business_columns, has_business_df,
                   review_file, user_file,
                   target_years, city, state, ex_i, reviews, user_ids_needed,
                   users, df_final, min_date, max_date, total_reviews, ex_error>>
    /\ UNCHANGED <<convVars, tmVars, dlVars, valVars, utilVars>>

\* one iteration of the review loop, lines 207-234
ScanReview ==
    /\ ex_pc = "scan_reviews"
    /\ ex_i < Len(review_file)
    /\ ex_i' = ex_i + 1
    /\ LET line == review_file[ex_i + 1]
           review == json_loads(line)
       IN  IF json_loads_raises(line)
           THEN /\ ex_pc' = "raised" /\ ex_error' = JSONDecodeError
                /\ ex_handles' = close_on_error(ex_handles)
                /\ UNCHANGED <<reviews, user_ids_needed>>
           ELSE IF review.date = NoDate
           THEN \* line 210, review["date"].split on a null date: None has
                \* no attribute split
                /\ ex_pc' = "raised" /\ ex_error' = "AttributeError"
                /\ ex_handles' = close_on_error(ex_handles)
                /\ UNCHANGED <<reviews, user_ids_needed>>
           ELSE LET year == review.date[1]
                IN  /\ UNCHANGED <<ex_pc, ex_error, ex_handles>>
                    /\ IF review.business_id \in business_ids
                          /\ year_wanted(target_years, year)
                       THEN /\ reviews' = Append(reviews, review_dict(review))
                            /\ user_ids_needed' = user_ids_needed \cup {review.user_id}
                       ELSE UNCHANGED <<reviews, user_ids_needed>>
    /\ UNCHANGED <<ex_fn, business_df, business_columns, has_business_df,
                   review_file, user_file,
                   target_years, city, state, business_ids, users, df_final,
                   min_date, max_date, total_reviews>>
    /\ UNCHANGED <<convVars, tmVars, dlVars, valVars, utilVars>>

\* end of the review file, lines 236-245
ScanReviewsDone ==
    /\ ex_pc = "scan_reviews"
    /\ ex_i = Len(review_file)
    /\ ex_pc' = "scan_users"
    /\ ex_i' = 0
    /\ ex_handles' = {"user_file"}
    /\ UNCHANGED <<ex_fn, business_df, business_columns, has_business_df,
                   review_file, user_file,
                   target_years, city, state, business_ids, reviews,
                   user_ids_needed, users, df_final, min_date, max_date,
                   total_reviews, ex_error>>
    /\ UNCHANGED <<convVars, tmVars, dlVars, valVars, utilVars>>

\* one iteration of the user loop, lines 246-258
ScanUser ==
    /\ ex_pc = "scan_users"
    /\ ex_i < Len(user_file)
    /\ ex_i' = ex_i + 1
    /\ LET line == user_file[ex_i + 1]
           user == json_loads(line)
       IN  IF json_loads_raises(line)
           THEN /\ ex_pc' = "raised" /\ ex_error' = JSONDecodeError
                /\ ex_handles' = close_on_error(ex_handles)
                /\ users' = users
           ELSE /\ UNCHANGED <<ex_pc, ex_error, ex_handles>>
                /\ users' = IF user.user_id \in user_ids_needed
                            THEN Append(users, user_dict(user)) ELSE users
    /\ UNCHANGED <<ex_fn, business_df, business_columns, has_business_df,
                   review_file, user_file,
                   target_years, city, state, business_ids, reviews,
                   user_ids_needed, df_final, min_date, max_date, total_reviews>>
    /\ UNCHANGED <<convVars, tmVars, dlVars, valVars, utilVars>>

\* end of the user file and the two merges, lines 260-294
Merge ==
    /\ ex_pc = "scan_users"
    /\ ex_i = Len(user_file)
    /\ ex_handles' = {}
    /\ IF merge_raises(reviews, users, "user_id") \/ select_raises(business_columns)
       THEN /\ ex_pc' = "raised" /\ ex_error' = "KeyError"
            /\ df_final' = df_final
       ELSE LET df_merged == merge_left(reviews, users, "user_id", NullUser)
                clean == business_df_clean(business_df_city(business_df, city, state))
            IN  /\ df_final' = merge_left(df_merged, clean, "business_id", NullBusiness)
                /\ ex_pc' = "temporal"
                /\ ex_error' = ex_error
    /\ UNCHANGED <<ex_fn, business_df, business_columns, has_business_df,
                   review_file, user_file,
                   target_years, city, state, ex_i, business_ids, reviews,
                   user_ids_needed, users, min_date, max_date, total_reviews>>
    /\ UNCHANGED <<convVars, tmVars, dlVars, valVars, utilVars>>

\* the temporal fields and the return, lines 296-316
Temporal ==
    /\ ex_pc = "temporal"
    /\ ex_handles' = ex_handles
    /\ IF to_datetime_raises(DateColumn(df_final))
       THEN /\ ex_pc' = "raised" /\ ex_error' = "ValueError"
            /\ df_final' = df_final
       ELSE /\ df_final' = extract_temporal_fields(df_final)
            /\ ex_pc' = "returned"
            /\ ex_error' = ex_error
    /\ UNCHANGED <<ex_fn, business_df, business_columns, has_business_df,
                   review_file, user_file,
                   target_years, city, state, ex_i, business_ids, reviews,
                   user_ids_needed, users, min_date, max_date, total_reviews>>
    /\ UNCHANGED <<convVars, tmVars, dlVars, valVars, utilVars>>

\* ------------------------------------------------------------------------
\* data_extraction.py: check_dataset_date_range
\* ------------------------------------------------------------------------
\* "date < min_date" on two "YYYY-MM-DD" strings
str_less(a, b) ==
    \/ a[1] < b[1]
    \/ a[1] = b[1] /\ a[2] < b[2]
    \/ a[1] = b[1] /\ a[2] = b[2] /\ a[3] < b[3]

\* lines 356-363
city_filter(df, c, s) ==
    SelectSeq(df, LAMBDA b : (c # None => b.city = c) /\ (s # None => b.state = s))

filter_active(c, s) == c # None \/ s # None

\* lines 351-379
RangeCall ==
    /\ ex_pc = "idle" /\ ex_fn = "check_dataset_date_range"
    /\ IF filter_active(city, state) /\ ~has_business_df
       THEN /\ ex_pc' = "raised" /\ ex_error' = "ValueError"
            /\ business_ids' = business_ids
            /\ ex_handles' = ex_handles
       ELSE /\ ex_pc' = "scan_range" /\ ex_error' = ex_error
            /\ ex_handles' = {"review_file"}
            /\ business_ids' = IF filter_active(city, state)
                               THEN {b.business_id :
                                       b \in Range(city_filter(business_df, city, state))}
                               ELSE {}
    /\ UNCHANGED <<ex_fn, business_df, business_columns, has_business_df,
                   review_file, user_file,
                   target_years, city, state, ex_i, reviews, user_ids_needed,
                   users, df_final, min_date, max_date, total_reviews>>
    /\ UNCHANGED <<convVars, tmVars, dlVars, valVars, utilVars>>

\* one iteration of the loop, lines 382-403
ScanRange ==
    /\ ex_pc = "scan_range"
    /\ ex_i < Len(review_file)
    /\ ex_i' = ex_i + 1
    /\ LET line == review_file[ex_i + 1]
           review == json_loads(line)
       IN  IF json_loads_raises(line)
           THEN /\ ex_pc' = "raised" /\ ex_error' = JSONDecodeError
                /\ ex_handles' = close_on_error(ex_handles)
                /\ UNCHANGED <<min_date, max_date, total_reviews>>
           ELSE /\ UNCHANGED <<ex_pc, ex_error, ex_handles>>
                /\ IF filter_active(city, state) /\ review.business_id \notin business_ids
                   THEN UNCHANGED <<min_date, max_date, total_reviews>>
                   ELSE LET date == review.date
                        IN  /\ min_date' = IF date # NoDate /\ (min_date = NoDate
                                                               \/ str_less(date, min_date))
                                           THEN date ELSE min_date
                            /\ max_date' = IF date # NoDate /\ (max_date = NoDate
                                                               \/ str_less(max_date, date))
                                           THEN date ELSE max_date
                            /\ total_reviews' = total_reviews + 1
    /\ UNCHANGED <<ex_fn, business_df, business_columns, has_business_df,
                   review_file, user_file,
                   target_years, city, state, business_ids, reviews,
                   user_ids_needed, users, df_final>>
    /\ UNCHANGED <<convVars, tmVars, dlVars, valVars, utilVars>>

\* end of file and the return, lines 405-416
RangeDone ==
    /\ ex_pc = "scan_range"
    /\ ex_i = Len(review_file)
    /\ ex_pc' = "returned"
    /\ ex_handles' = {}
    /\ UNCHANGED <<ex_fn, business_df, business_columns, has_business_df,
                   review_file, user_file,
                   target_years, city, state, ex_i, business_ids, reviews,
                   user_ids_needed, users, df_final, min_date, max_date,
                   total_reviews, ex_error>>
    /\ UNCHANGED <<convVars, tmVars, dlVars, valVars, utilVars>>

\* ------------------------------------------------------------------------
\* data_extraction.py: count_records (the file is review_file, the count is
\* total_reviews)
\* ------------------------------------------------------------------------
\* lines 42-43
CountCall ==
    /\ ex_pc = "idle" /\ ex_fn = "count_records"
    /\ ex_pc' = "count"
    /\ ex_handles' = {"review_file"}
    /\ total_reviews' = 0
    /\ UNCHANGED <<ex_fn, business_df, business_columns, has_business_df,
                   review_file, user_file, target_years, city, state, ex_i,
                   business_ids, reviews, user_ids_needed, users, df_final,
                   min_date, max_date, ex_error>>
    /\ UNCHANGED <<convVars, tmVars, dlVars, valVars, utilVars>>

\* one iteration, lines 44-45: the line is counted, not parsed
CountLine ==
    /\ ex_pc = "count"
    /\ ex_i < Len(review_file)
    /\ ex_i' = ex_i + 1
    /\ total_reviews' = total_reviews + 1
    /\ UNCHANGED <<ex_fn, business_df, business_columns, has_business_df,
                   review_file, user_file, target_years, city, state, ex_pc,
                   business_ids, reviews, user_ids_needed, users, df_final,
                   min_date, max_date, ex_error, ex_handles>>
    /\ UNCHANGED <<convVars, tmVars, dlVars, valVars, utilVars>>

\* end of file and the return, lines 49-50
CountDone ==
    /\ ex_pc = "count"
    /\ ex_i = Len(review_file)
    /\ ex_pc' = "returned"
    /\ ex_handles' = {}
    /\ UNCHANGED <<ex_fn, business_df, business_columns, has_business_df,
                   review_file, user_file, target_years, city, state, ex_i,
                   business_ids, reviews, user_ids_needed, users, df_final,
                   min_date, max_date, total_reviews, ex_error>>
    /\ UNCHANGED <<convVars, tmVars, dlVars, valVars, utilVars>>

NextExtract ==
    \/ CountCall
    \/ CountLine
    \/ CountDone
    \/ ExtractCall
    \/ ScanReview
    \/ ScanReviewsDone
    \/ ScanUser
    \/ Merge
    \/ Temporal
    \/ RangeCall
    \/ ScanRange
    \/ RangeDone

\* ------------------------------------------------------------------------
\* The temporal feature derivation applied to a batch of dates
\* ------------------------------------------------------------------------
BatchYears == {2013, 2016}
BatchDates == {<<y, m, 15>> : y \in BatchYears, m \in 1..12} \cup {NoDate, BadDate}

TemporalStart ==
    /\ tm_dates \in SeqsUpTo(BatchDates, MaxBatch)
    /\ tm_pc = "idle"
    /\ tm_fn = None
    /\ tm_out = <<>>

BatchFrame(dates) == [i \in 1..Len(dates) |-> [review_date |-> dates[i]]]

\* feature_engineering.add_seasons(df)
AddSeasons ==
    /\ tm_pc = "idle"
    /\ tm_fn' = "add_seasons"
    /\ IF to_datetime_raises(tm_dates)
       THEN tm_pc' = "raised" /\ tm_out' = tm_out
       ELSE tm_pc' = "returned" /\ tm_out' = add_seasons(BatchFrame(tm_dates))
    /\ UNCHANGED tm_dates
    /\ UNCHANGED <<convVars, exVars, dlVars, valVars, utilVars>>

\* lines 296-312 of extract_city_dataset on the same frame
ExtractTemporal ==
    /\ tm_pc = "idle"
    /\ tm_fn' = "extract_city_dataset"
    /\ IF to_datetime_raises(tm_dates)
       THEN tm_pc' = "raised" /\ tm_out' = tm_out
       ELSE tm_pc' = "returned" /\ tm_out' = extract_temporal_fields(BatchFrame(tm_dates))
    /\ UNCHANGED tm_dates
    /\ UNCHANGED <<convVars, exVars, dlVars, valVars, utilVars>>

NextTemporal == AddSeasons \/ ExtractTemporal

\* ------------------------------------------------------------------------
\* airbnb_utils.py: download_insideairbnb
\* ------------------------------------------------------------------------
MaxDownloads == 2

\* lines 27-30
city_map == [chicago |-> "united-states/il/chicago",
             los_angeles |-> "united-states/ca/los-angeles"]

Cities == {"chicago", "los_angeles", "boston"}
Snapshots == {"2025-06-17"}
FileTypes == {"listings", "reviews"}

\* line 35: the f-string, as the sequence of its pieces
url_of(c, d, t) ==
    <<"https://data.insideairbnb.com/", city_map[c], "/", d, "/data/", t, ".csv.gz">>

\* the bodies a response or a file may hold, as byte sequences
Bodies == {<<>>, <<31, 139>>, <<31, 139, 8>>}

\* what requests.get(url, timeout) does: it raises, or gives the final
\* response, whose status may be a success (200), an error (404, 503) or
\* neither (304, a 3xx that requests does not follow)
RequestExceptions == {"ConnectionError", "Timeout", "HTTPError"}
StatusCodes == {200, 304, 404, 503}
Responses ==
    {[raises |-> TRUE, error |-> e] : e \in {"ConnectionError", "Timeout"}}
    \cup {[raises |-> FALSE, status_code |-> st, content |-> b] :
             st \in StatusCodes, b \in Bodies}

\* mutant: no status is an error
raise_for_status_raises_never(status_code) == FALSE
\* response.raise_for_status(): HTTPError for a 4xx or 5xx status
raise_for_status_raises(status_code) == status_code >= 400 /\ status_code < 600

\* mutant: the destination is never found
exists_never(file) == FALSE
\* output_path.exists(), line 37
exists(file) == file # <<>>

\* st_size / (1024 * 1024), with the size left in bytes
size_of(file) == Len(file[1])

DownloadStart ==
    /\ dl_file \in {<<>>} \cup {<<b>> : b \in Bodies}
    /\ dl_city = None /\ dl_date = None /\ dl_type = None
    /\ dl_pc = "idle"
    /\ dl_requests = <<>>
    /\ dl_response = None
    /\ dl_ret = None /\ dl_error = None
    /\ dl_calls = 0
    /\ dl_file_before = dl_file
    /\ dl_origin = (IF dl_file = <<>> THEN "none" ELSE "preexisting")
    /\ dl_history = <<>>

\* lines 27-42: the city check, the skip, or the GET request
DownloadCall(c, d, t) ==
    /\ dl_pc \in {"idle", "returned", "raised"}
    /\ dl_calls < MaxDownloads
    /\ dl_calls' = dl_calls + 1
    /\ dl_city' = c /\ dl_date' = d /\ dl_type' = t
    /\ dl_file_before' = dl_file
    /\ dl_response' = None /\ dl_error' = None
    /\ IF c \notin DOMAIN city_map
       THEN /\ dl_ret' = [success |-> FALSE, message |-> <<"Unknown city", c>>]
            /\ dl_pc' = "returned"
            /\ dl_requests' = <<>>
            /\ dl_history' = Append(dl_history, "unknown_city")
       ELSE IF exists(dl_file)
       THEN /\ dl_ret' = [success |-> TRUE,
                          message |-> <<"[SKIP] File exists", size_of(dl_file)>>]
            /\ dl_pc' = "returned"
            /\ dl_requests' = <<>>
            /\ dl_history' = Append(dl_history, "skip")
       ELSE /\ dl_ret' = None
            /\ dl_pc' = "requesting"
            /\ dl_requests' = <<url_of(c, d, t)>>
            /\ dl_history' = dl_history
    /\ dl_file' = dl_file /\ dl_origin' = dl_origin
    /\ UNCHANGED <<convVars, exVars, tmVars, valVars, utilVars>>

\* lines 42-43 and 51-52: the outcome of the request
Respond(r) ==
    /\ dl_pc = "requesting"
    /\ dl_response' = r
    /\ IF r.raises
       THEN /\ dl_ret' = [success |-> FALSE,
                          message |-> <<"Download failed", r.error>>]
            /\ dl_pc' = "returned"
            /\ dl_history' = Append(dl_history, "failed")
       ELSE IF raise_for_status_raises(r.status_code)
       THEN /\ dl_ret' = [success |-> FALSE,
                          message |-> <<"Download failed", "HTTPError">>]
            /\ dl_pc' = "returned"
            /\ dl_history' = Append(dl_history, "failed")
       ELSE /\ dl_ret' = dl_ret
            /\ dl_pc' = "writing"
            /\ dl_history' = dl_history
    /\ UNCHANGED <<dl_file, dl_city, dl_date, dl_type, dl_requests, dl_error,
                   dl_calls, dl_file_before, dl_origin>>
    /\ UNCHANGED <<convVars, exVars, tmVars, valVars, utilVars>>

\* lines 45-49: the bytes are written and the call returns
WriteFile ==
    /\ dl_pc = "writing"
    /\ dl_file' = <<dl_response.content>>
    /\ dl_ret' = [success |-> TRUE,
                  message |-> <<"Downloaded successfully", size_of(dl_file')>>]
    /\ dl_pc' = "returned"
    /\ dl_origin' = "complete"
    /\ dl_history' = Append(dl_history, "downloaded")
    /\ UNCHANGED <<dl_city, dl_date, dl_type, dl_requests, dl_response,
                   dl_error, dl_calls, dl_file_before>>
    /\ UNCHANGED <<convVars, exVars, tmVars, valVars, utilVars>>

\* lines 45-46 when open() or write() fails: the OSError is no
\* RequestException, so it leaves the function; the file was not created, or
\* was created and holds none or some of the bytes.
WriteRaises ==
    /\ dl_pc = "writing"
    /\ \E n \in 0..Len(dl_response.content) :
          dl_file' \in {<<>>, <<SubSeq(dl_response.content, 1, n)>>}
    /\ dl_error' = "OSError"
    /\ dl_pc' = "raised"
    /\ dl_origin' = (IF dl_file' = <<>> THEN "none" ELSE "cut_off")
    /\ dl_history' = Append(dl_history, "raised")
    /\ UNCHANGED <<dl_city, dl_date, dl_type, dl_requests, dl_response,
                   dl_ret, dl_calls, dl_file_before>>
    /\ UNCHANGED <<convVars, exVars, tmVars, valVars, utilVars>>

NextDownload ==
    \/ \E c \in Cities, d \in Snapshots, t \in FileTypes : DownloadCall(c, d, t)
    \/ \E r \in Responses : Respond(r)
    \/ WriteFile
    \/ WriteRaises

\* ------------------------------------------------------------------------
\* airbnb_utils.py: validate_insideairbnb_structure
\* ------------------------------------------------------------------------
\* lines 103 and 106
required_reviews == <<"listing_id", "date", "comments">>
required_listings == <<"id", "property_type", "room_type", "latitude", "longitude">>

\* lines 108-109: [col for col in required if col not in df.columns]
missing_columns(required, columns) ==
    SelectSeq(required, LAMBDA col : col \notin columns)

\* mutant: one empty list is enough
valid_if_either(missing_reviews, missing_listings) ==
    Len(missing_reviews) = 0 \/ Len(missing_listings) = 0
\* line 111
valid_of(missing_reviews, missing_listings) ==
    Len(missing_reviews) = 0 /\ Len(missing_listings) = 0

\* the frames: any columns out of the required ones and one more
ValidateStart ==
    /\ reviews_columns \in SUBSET (Range(required_reviews) \cup {"reviewer_name"})
    /\ listings_columns \in SUBSET (Range(required_listings) \cup {"price"})
    /\ val_pc = "idle"
    /\ val_ret = None

\* lines 103-116
Validate ==
    /\ val_pc = "idle"
    /\ LET missing_reviews == missing_columns(required_reviews, reviews_columns)
           missing_listings == missing_columns(required_listings, listings_columns)
       IN  val_ret' = [valid |-> valid_of(missing_reviews, missing_listings),
                       missing_cols |-> [reviews |-> missing_reviews,
                                         listings |-> missing_listings]]
    /\ val_pc' = "returned"
    /\ UNCHANGED <<reviews_columns, listings_columns>>
    /\ UNCHANGED <<convVars, exVars, tmVars, dlVars, utilVars>>

NextValidate == Validate


\* ------------------------------------------------------------------------
\* data_filtering.py: classify_tourism_establishment
\* ------------------------------------------------------------------------
\* A str is the sequence of its characters; a categories value is
\* [kind |-> "None"], [kind |-> "nan"] or [kind |-> "str", text |-> a str].
UpperLetters == <<"A", "B", "C", "D", "E", "F", "G", "H", "I", "J", "K", "L", "M", "N", "O", "P", "Q", "R", "S", "T", "U", "V", "W", "X", "Y", "Z">>
LowerLetters == <<"a", "b", "c", "d", "e", "f", "g", "h", "i", "j", "k", "l", "m", "n", "o", "p", "q", "r", "s", "t", "u", "v", "w", "x", "y", "z">>

\* str.lower() on ASCII text
lower_char(c) ==
    IF \E i \in 1..26 : UpperLetters[i] = c
    THEN LowerLetters[CHOOSE i \in 1..26 : UpperLetters[i] = c]
    ELSE c

lower(text) == [i \in 1..Len(text) |-> lower_char(text[i])]

\* "keyword in text"
contains(keyword, text) ==
    \E i \in 1..(Len(text) - Len(keyword) + 1) :
        SubSeq(text, i, i + Len(keyword) - 1) = keyword

hotel_keywords == <<<<"h", "o", "t", "e", "l">>, <<"h", "o", "t", "e", "l", "s">>>>

restaurant_keywords == <<<<"r", "e", "s", "t", "a", "u", "r", "a", "n", "t">>, <<"r", "e", "s", "t", "a", "u", "r", "a", "n", "t", "s">>, <<"c", "a", "f", "e">>, <<"c", "a", "f", "e", "s">>>>

pd_isna(value) == value.kind \in {"None", "nan"}

\* any(keyword in cats_lower for keyword in keywords)
any_keyword_in(keywords, cats_lower) ==
    \E k \in 1..Len(keywords) : contains(keywords[k], cats_lower)

classify_restaurants_first(cats) ==
    IF pd_isna(cats) THEN "Unknown"
    ELSE LET cats_lower == lower(cats.text)
         IN  IF any_keyword_in(restaurant_keywords, cats_lower) THEN "Restaurants"
             ELSE IF any_keyword_in(hotel_keywords, cats_lower) THEN "Hotels"
             ELSE "Other"

classify_tourism_establishment(cats) ==
    IF pd_isna(cats) THEN "Unknown"
    ELSE LET cats_lower == lower(cats.text)
         IN  IF any_keyword_in(hotel_keywords, cats_lower) THEN "Hotels"
             ELSE IF any_keyword_in(restaurant_keywords, cats_lower) THEN "Restaurants"
             ELSE "Other"

\* The category strings of the model: up to MaxTokens pieces put together.
Vocabulary == {
    <<"H", "o", "t", "e", "l">>,
    <<"H", "O", "T", "E", "L", "S">>,
    <<"M", "o", "t", "e", "l">>,
    <<"h", "o", "t">>,
    <<"e", "l">>,
    <<"R", "e", "s", "t", "a", "u", "r", "a", "n", "t", "s">>,
    <<"r", "e", "s", "t", "a", "u", "r", "a", "n", "t">>,
    <<"C", "a", "f", "e">>,
    <<"C", "A", "F", "E", "S">>,
    <<"c", "a">>,
    <<"f", "e">>,
    <<"B", "a", "r", "s">>,
    <<",", " ">> }

RECURSIVE Concat(_)
Concat(pieces) ==
    IF pieces = <<>> THEN <<>> ELSE Head(pieces) \o Concat(Tail(pieces))

Texts == {Concat(pieces) : pieces \in SeqsUpTo(Vocabulary, MaxTokens)}

ClassifyInputs ==
    {[kind |-> "None"], [kind |-> "nan"]}
        \cup {[kind |-> "str", text |-> t] : t \in Texts}

ClassifyStart ==
    /\ cl_categories \in ClassifyInputs
    /\ cl_pc = "idle"
    /\ cl_ret = None

Classify ==
    /\ cl_pc = "idle"
    /\ cl_ret' = classify_tourism_establishment(cl_categories)
    /\ cl_pc' = "returned"
    /\ UNCHANGED <<cl_categories, ft_df, ft_columns, ft_city, ft_state,
                   establishment_types, ft_pc, df_filtered, ft_error>>
    /\ UNCHANGED <<coreVars, yrVars, cfVars, mgVars, ylVars>>

NextClassify == Classify

\* ------------------------------------------------------------------------
\* data_filtering.py: filter_by_city_and_establishment_type
\* ------------------------------------------------------------------------
\* establishment_types is [str |-> TRUE, text |-> a type] or
\* [str |-> FALSE, list |-> a list of types].
DocumentedTypes == {"Restaurants", "Hotels & Travel", "Other", "Unknown"}

\* if isinstance(establishment_types, str): establishment_types = [...]
as_list(types) == IF types.str THEN <<types.text>> ELSE types.list

filter_by_city_and_establishment_type(frame, c, s, types) ==
    LET in_city(row) == row.city = c /\ row.state = s
        df_city == SelectSeq(frame, in_city)
        of_type(row) == row.tourism_establishment_type \in Range(as_list(types))
    IN  SelectSeq(df_city, of_type)

Places == {<<"Philadelphia", "PA">>, <<"Tampa", "FL">>}

FrameCategories ==
    {[kind |-> "None"],
     [kind |-> "str", text |-> <<"H", "o", "t", "e", "l", "s", ",", " ", "H", "o", "t", "e", "l", "s", " ", "&", " ", "T", "r", "a", "v", "e", "l">>],
     [kind |-> "str", text |-> <<"M", "e", "x", "i", "c", "a", "n", ",", " ", "R", "e", "s", "t", "a", "u", "r", "a", "n", "t", "s", ",", " ", "B", "a", "r", "s">>],
     [kind |-> "str", text |-> <<"B", "a", "r", "s">>]}

\* a business row, before and after the classification column is added
PlainRows ==
    {[city |-> p[1], state |-> p[2], categories |-> c] :
        p \in Places, c \in FrameCategories}

classified(row) ==
    [city |-> row.city, state |-> row.state, categories |-> row.categories,
     tourism_establishment_type |->
         classify_tourism_establishment(row.categories)]

TypeArguments ==
    {[str |-> TRUE, text |-> t] : t \in DocumentedTypes \cup {"Hotels"}}
        \cup {[str |-> FALSE, list |-> l] :
                l \in {<<>>, <<"Restaurants", "Hotels & Travel">>,
                       <<"Hotels", "Restaurants">>}}

FilterStart ==
    /\ \E plain \in SeqsUpTo(PlainRows, MaxRows) :
          \/ /\ ft_df = plain
             /\ ft_columns = {"city", "state", "categories"}
          \/ /\ ft_df = [i \in 1..Len(plain) |-> classified(plain[i])]
             /\ ft_columns = {"city", "state", "categories",
                              "tourism_establishment_type"}
    /\ \E p \in Places : ft_city = p[1]
    /\ \E p \in Places : ft_state = p[2]
    /\ establishment_types \in TypeArguments
    /\ ft_pc = "idle" /\ df_filtered = <<>> /\ ft_error = None

Filter ==
    /\ ft_pc = "idle"
    /\ IF "tourism_establishment_type" \notin ft_columns
       THEN /\ ft_error' = "ValueError"
            /\ ft_pc' = "raised"
            /\ df_filtered' = df_filtered
       ELSE /\ df_filtered' = filter_by_city_and_establishment_type(
                                  ft_df, ft_city, ft_state, establishment_types)
            /\ ft_pc' = "returned"
            /\ ft_error' = ft_error
    /\ UNCHANGED <<cl_categories, cl_pc, cl_ret, ft_df, ft_columns, ft_city,
                   ft_state, establishment_types>>
    /\ UNCHANGED <<coreVars, yrVars, cfVars, mgVars, ylVars>>

NextFilter == Filter

\* ------------------------------------------------------------------------
\* data_validation.py: validate_years_in_data
\* ------------------------------------------------------------------------
\* str(file_path).endswith(suffix), the path being the pieces of its name
endswith(path, suffix) == path # <<>> /\ path[Len(path)] = suffix

\* nrows=sample_size and df.head(sample_size)
head_all(rows, n) == rows

head(rows, n) == IF Len(rows) > n THEN SubSeq(rows, 1, n) ELSE rows

\* pd.to_datetime(value, errors='coerce'): what is no date becomes NaT
to_datetime_coerce(d) == IF d = NoDate \/ ~ValidDate(d) THEN NaT ELSE d

\* set(df[date_column].dt.year.dropna().unique())
years_in(rows) ==
    {to_datetime_coerce(rows[i])[1] :
        i \in {j \in 1..Len(rows) : to_datetime_coerce(rows[j]) # NaT}}

RECURSIVE sorted(_)
sorted(S) ==
    IF S = {} THEN <<>>
    ELSE LET least == CHOOSE x \in S : \A y \in S : x <= y
         IN  <<least>> \o sorted(S \ {least})

\* if isinstance(expected_years, int): expected_years = [expected_years]
expected_list(years) == IF years.int THEN <<years.value>> ELSE years.list

read_raises(file) == file.status # "ok"

yr_error(message) == [valid |-> FALSE, info |-> [error |-> message]]

validate_years_in_data(path, file, years, column, n) ==
    IF ~(endswith(path, ".gz") \/ endswith(path, ".csv")
            \/ endswith(path, ".parquet"))
    THEN yr_error("Unsupported file format")
    ELSE IF read_raises(file) THEN yr_error(file.status)
    ELSE IF column \notin file.columns THEN yr_error("Column not found")
    ELSE LET available_years == years_in(head(file.rows, n))
             missing_years == Range(expected_list(years)) \ available_years
         IN  [valid |-> missing_years = {},
              info |-> [available_years |-> sorted(available_years),
                        missing_years |->
                            IF missing_years # {}
                            THEN [none |-> FALSE, years |-> missing_years]
                            ELSE [none |-> TRUE, years |-> {}],
                        valid |-> missing_years = {}]]

YearPaths ==
    {<<"reviews", ".csv", ".gz">>, <<"reviews", ".csv">>,
     <<"reviews", ".parquet">>, <<"reviews", ".json">>,
     <<"reviews", ".gz", ".bak">>, <<"reviews">>}

YearDates ==
    {<<2022, 5, 1>>, <<2023, 7, 4>>, <<2024, 2, 29>>, NoDate, BadDate}

YearColumns == {{"listing_id", "date"}, {"listing_id", "review_date"}}

YearFiles ==
    {[status |-> "ok", columns |-> c, rows |-> r] :
        c \in YearColumns, r \in SeqsUpTo(YearDates, MaxRows)}
    \cup {[status |-> st, columns |-> {}, rows |-> <<>>] :
            st \in {"FileNotFoundError", "BadGzipFile"}}

ExpectedYears ==
    {[int |-> TRUE, value |-> y] : y \in {2022, 2025}}
    \cup {[int |-> FALSE, list |-> l] :
            l \in {<<>>, <<2022>>, <<2022, 2024>>, <<2023, 2023>>}}

YearsStart ==
    /\ yr_path \in YearPaths
    /\ yr_file \in YearFiles
    /\ expected_years \in ExpectedYears
    /\ date_column \in {"date", "review_date"}
    /\ sample_size \in 0..MaxRows
    /\ yr_pc = "idle"
    /\ yr_ret = <<>>

ValidateYears ==
    /\ yr_pc = "idle"
    /\ yr_ret' = validate_years_in_data(yr_path, yr_file, expected_years,
                                        date_column, sample_size)
    /\ yr_pc' = "returned"
    /\ UNCHANGED <<yr_path, yr_file, expected_years, date_column, sample_size>>
    /\ UNCHANGED <<coreVars, flVars, cfVars, mgVars, ylVars>>

NextYears == ValidateYears

YearsAtRest ==
    /\ yr_path = <<>> /\ yr_file = [status |-> "ok", columns |-> {}, rows |-> <<>>]
    /\ expected_years = [int |-> FALSE, list |-> <<>>]
    /\ date_column = "date" /\ sample_size = 0
    /\ yr_pc = "idle" /\ yr_ret = <<>>

\* ------------------------------------------------------------------------
\* data_io.py: check_existing_file
\* ------------------------------------------------------------------------
CheckRows == 1000

\* the file types whose branch of the try block reads the file
DataTypes == {"parquet", "csv.gz", "csv"}

\* pd.read_parquet / pd.read_csv raising on the file
load_raises(file, type) == type \in DataTypes /\ file.status # "ok"

\* the frame the try block binds to df (read_csv reads nrows=1000)
loaded(file, type) ==
    IF type = "parquet" THEN file.rows ELSE head(file.rows, CheckRows)

\* df[column].nunique()
nunique(rows, column) == Cardinality({rows[i][column] : i \in 1..Len(rows)})

\* the keys the block at lines 95-109 adds to info
stats(file, type) ==
    LET frame == loaded(file, type)
        of_rows == ("rows" :> Len(frame)) @@ ("columns" :> Cardinality(file.columns))
        of_date ==
            IF "date" \in file.columns
            THEN "years" :> sorted(years_in([i \in 1..Len(frame) |-> frame[i].date]))
            ELSE <<>>
        of_hotels ==
            IF "hotel_name" \in file.columns
            THEN "unique_hotels" :> nunique(frame, "hotel_name")
            ELSE <<>>
        of_listings ==
            IF "listing_id" \in file.columns
            THEN "unique_listings" :> nunique(frame, "listing_id")
            ELSE <<>>
    IN  of_rows @@ of_date @@ of_hotels @@ of_listings

\* the lines printed at 114-123
stat_lines(info) ==
    (IF "rows" \in DOMAIN info THEN <<"Rows">> ELSE <<>>)
    \o (IF "years" \in DOMAIN info THEN <<"Years">> ELSE <<>>)
    \o (IF "unique_hotels" \in DOMAIN info THEN <<"Hotels">> ELSE <<>>)
    \o (IF "unique_listings" \in DOMAIN info THEN <<"Listings">> ELSE <<>>)
    \o <<"">>

CheckFileRows ==
    {[date |-> d, hotel_name |-> h, listing_id |-> 1] :
        d \in {<<2022, 5, 1>>, <<2024, 2, 29>>, BadDate}, h \in {"H1", "H2"}}

CheckFiles ==
    {[exists |-> TRUE, size_mb |-> 1, status |-> "ok", columns |-> c, rows |-> r] :
        c \in SUBSET {"date", "hotel_name", "listing_id"},
        r \in SeqsUpTo(CheckFileRows, MaxRows)}
    \cup {[exists |-> TRUE, size_mb |-> 1, status |-> "ArrowInvalid",
           columns |-> {}, rows |-> <<>>],
          [exists |-> FALSE, size_mb |-> 0, status |-> "ok",
           columns |-> {}, rows |-> <<>>]}

CheckFileTypes == {"parquet", "csv", "csv.gz", "xlsx", "json"}

CheckFileLocalsStart ==
    /\ cf_pc = "idle" /\ cf_ret = <<>> /\ cf_printed = <<>> /\ cf_error = None

CheckFileStart ==
    /\ cf_file \in CheckFiles
    /\ cf_file_type \in CheckFileTypes
    /\ show_info \in BOOLEAN
    /\ CheckFileLocalsStart

CheckFile ==
    /\ cf_pc = "idle"
    /\ LET info == ("path" :> "file_path") @@ ("size_mb" :> cf_file.size_mb)
           header == IF show_info THEN <<"[Skip] File already exists", "Size">>
                     ELSE <<>>
       IN  IF ~cf_file.exists
           THEN \* lines 65-66
                /\ cf_ret' = [exists |-> FALSE, info |-> <<>>]
                /\ cf_pc' = "returned"
                /\ UNCHANGED <<cf_printed, cf_error>>
           ELSE IF show_info /\ cf_file_type = "xlsx"
           THEN \* lines 80-82
                /\ cf_ret' = [exists |-> TRUE, info |-> info]
                /\ cf_printed' = header \o <<"">>
                /\ cf_pc' = "returned"
                /\ UNCHANGED cf_error
           ELSE IF load_raises(cf_file, cf_file_type)
           THEN \* lines 111-112, then line 114 with df never bound
                IF show_info
                THEN /\ cf_error' = "UnboundLocalError"
                     /\ cf_pc' = "raised"
                     /\ cf_printed' = header
                     /\ UNCHANGED cf_ret
                ELSE /\ cf_ret' = [exists |-> TRUE,
                                   info |-> info @@ ("load_error" :> cf_file.status)]
                     /\ cf_pc' = "returned"
                     /\ UNCHANGED <<cf_printed, cf_error>>
           ELSE IF cf_file_type \notin DataTypes
           THEN \* df = None
                /\ cf_ret' = [exists |-> TRUE, info |-> info]
                /\ cf_printed' = header
                /\ cf_pc' = "returned"
                /\ UNCHANGED cf_error
           ELSE LET full == info @@ stats(cf_file, cf_file_type)
                IN  /\ cf_ret' = [exists |-> TRUE, info |-> full]
                    /\ cf_printed' = IF show_info THEN header \o stat_lines(full)
                                     ELSE <<>>
                    /\ cf_pc' = "returned"
                    /\ UNCHANGED cf_error
    /\ UNCHANGED <<cf_file, cf_file_type, show_info>>
    /\ UNCHANGED <<coreVars, flVars, yrVars, mgVars, ylVars>>

NextCheckFile == CheckFile

CheckFileAtRest ==
    /\ cf_file = [exists |-> FALSE, size_mb |-> 0, status |-> "ok",
                  columns |-> {}, rows |-> <<>>]
    /\ cf_file_type = "parquet" /\ show_info = FALSE
    /\ CheckFileLocalsStart

\* ------------------------------------------------------------------------
\* airbnb_utils.py: merge_listings_reviews
\* ------------------------------------------------------------------------
\* "if year_filter:" -- None, 0 and the empty list are false
truthy(filter) ==
    \/ filter.kind = "int" /\ filter.value # 0
    \/ filter.kind = "list" /\ filter.list # <<>>

\* if isinstance(year_filter, int): year_filter = [year_filter]
filter_list(filter) == IF filter.kind = "int" THEN <<filter.value>> ELSE filter.list

\* reviews['date'].dt.year.isin(year_filter): NaT has no year and is not in
year_isin(date, years) ==
    to_datetime(date) # NaT /\ to_datetime(date)[1] \in Range(years)

NullListing == [id_listing |-> NaN, name |-> NaN]

\* reviews.merge(listings, left_on='listing_id', right_on='id', how='left',
\*               suffixes=('_review', '_listing'))
RECURSIVE merge_listing_id(_, _)
merge_listing_id(left, right) ==
    IF left = <<>> THEN <<>>
    ELSE LET l == Head(left)
             review == [id_review |-> l.id, listing_id |-> l.listing_id,
                        date |-> l.date]
             matches == SelectSeq(right, LAMBDA r : r.id = l.listing_id)
             rows == IF matches = <<>> THEN <<review @@ NullListing>>
                     ELSE [j \in 1..Len(matches) |->
                             review @@ [id_listing |-> <<matches[j].id>>,
                                        name |-> <<matches[j].name>>]]
         IN  rows \o merge_listing_id(Tail(left), right)

ListingRows ==
    {[id |-> 1, name |-> "Loft"], [id |-> 1, name |-> "Loft again"],
     [id |-> 3, name |-> "Cabin"]}

MergeDates == {<<2022, 5, 1>>, <<2023, 7, 4>>, NoDate, BadDate}

\* the review on row i carries id i
MergeReviews ==
    UNION {{[i \in 1..m |-> [id |-> i, listing_id |-> f[i][1], date |-> f[i][2]]] :
                f \in [1..m -> {1, 2} \X MergeDates]} : m \in 0..MaxReviews}

YearFilters ==
    {[kind |-> "None"]}
    \cup {[kind |-> "int", value |-> y] : y \in {2022, 2024}}
    \cup {[kind |-> "list", list |-> l] :
            l \in {<<>>, <<2022>>, <<2022, 2023>>}}

MergeLocalsStart == mg_pc = "idle" /\ merged = <<>> /\ mg_error = None

MergeStart ==
    /\ mg_listings \in SeqsUpTo(ListingRows, MaxRows)
    /\ mg_reviews \in MergeReviews
    /\ year_filter \in YearFilters
    /\ MergeLocalsStart

MergeListingsReviews ==
    /\ mg_pc = "idle"
    /\ LET dates == [i \in 1..Len(mg_reviews) |-> mg_reviews[i].date]
           filtered ==
               IF truthy(year_filter)
               THEN SelectSeq(mg_reviews,
                        LAMBDA r : year_isin(r.date, filter_list(year_filter)))
               ELSE mg_reviews
       IN  IF truthy(year_filter) /\ to_datetime_raises(dates)
           THEN /\ mg_pc' = "raised" /\ mg_error' = "ValueError"
                /\ UNCHANGED merged
           ELSE /\ merged' = merge_listing_id(filtered, mg_listings)
                /\ mg_pc' = "returned"
                /\ UNCHANGED mg_error
    /\ UNCHANGED <<mg_listings, mg_reviews, year_filter>>
    /\ UNCHANGED <<coreVars, flVars, yrVars, cfVars, ylVars>>

NextMerge == MergeListingsReviews

MergeAtRest ==
    /\ mg_listings = <<>> /\ mg_reviews = <<>> /\ year_filter = [kind |-> "None"]
    /\ MergeLocalsStart

\* ------------------------------------------------------------------------
\* yelp_utils.py: download_yelp_with_complete_handling
\* ------------------------------------------------------------------------
BusinessJson == "yelp_academic_dataset_business.json"
ReviewJson == "yelp_academic_dataset_review.json"
UserJson == "yelp_academic_dataset_user.json"

TARGET_FILES == <<BusinessJson, ReviewJson, UserJson>>

\* if target_files is None: target_files = [...]
target_list(targets) == IF targets.none THEN TARGET_FILES ELSE targets.list

\* the files of the list that check_existing_file / exists() do not find
files_to_download_all(dir, names) == names

files_to_download(dir, names) ==
    SelectSeq(names, LAMBDA n : dir[n] = "absent")

\* validate_yelp_structure: the result for one file
file_result(content) ==
    IF content = "absent" THEN [valid |-> FALSE, error |-> "File not found"]
    ELSE IF content = "empty" THEN [valid |-> FALSE, error |-> "Empty file"]
    ELSE IF content = "lacks_columns" THEN [valid |-> FALSE, error |-> "missing"]
    ELSE [valid |-> TRUE, error |-> ""]

file_paths == [business |-> BusinessJson, review |-> ReviewJson, user |-> UserJson]

validate_yelp_structure(dir) ==
    [kind \in DOMAIN file_paths |-> file_result(dir[file_paths[kind]])]

all_valid(results) == \A kind \in DOMAIN results : results[kind].valid

NoResults == <<>>

\* Step 3 (lines 155-178)
step3(dir, check, download_message, download_status) ==
    IF check
    THEN LET results == validate_yelp_structure(dir)
         IN  IF ~all_valid(results)
             THEN [success |-> FALSE,
                   message |-> <<download_message, "validation failed">>,
                   status |-> "validation_failed",
                   validation_results |-> results]
             ELSE [success |-> TRUE,
                   message |-> <<download_message, "All files validated">>,
                   status |-> download_status,
                   validation_results |-> results]
    ELSE [success |-> TRUE, message |-> <<download_message>>,
          status |-> download_status, validation_results |-> NoResults]

failed(message, status) ==
    [success |-> FALSE, message |-> <<message>>, status |-> status,
     validation_results |-> NoResults]

YelpDirs == [Range(TARGET_FILES) -> {"absent", "good", "lacks_columns"}]

TargetFiles ==
    {[none |-> TRUE, list |-> <<>>]}
    \cup {[none |-> FALSE, list |-> l] :
            l \in {<<>>, <<BusinessJson>>, <<BusinessJson, ReviewJson>>}}

\* what unzip=True can leave in download_dir
Extracted == {{}, {BusinessJson}, Range(TARGET_FILES)}

unzipped(dir, names, content) ==
    [n \in DOMAIN dir |-> IF n \in names THEN content ELSE dir[n]]

YelpLocalsStart ==
    /\ target_files = [none |-> TRUE, list |-> <<>>] /\ validate = FALSE
    /\ yl_pc = "idle" /\ yl_ret = failed("", "not called")
    /\ yl_api_calls = 0 /\ yl_calls = 0

YelpStart ==
    /\ download_dir \in YelpDirs
    /\ yl_dir_before = download_dir
    /\ YelpLocalsStart

\* lines 65-85 and, when nothing is to be downloaded, 151-178
YelpCall(t, v) ==
    /\ yl_pc \in {"idle", "returned"}
    /\ yl_calls < MaxYelpCalls
    /\ yl_calls' = yl_calls + 1
    /\ target_files' = t /\ validate' = v
    /\ yl_api_calls' = 0
    /\ yl_dir_before' = download_dir
    /\ IF files_to_download(download_dir, target_list(t)) = <<>>
       THEN /\ yl_ret' = step3(download_dir, v, "All files already present",
                               "files_exist")
            /\ yl_pc' = "returned"
       ELSE /\ yl_ret' = yl_ret
            /\ yl_pc' = "downloading"
    /\ UNCHANGED download_dir
    /\ UNCHANGED <<coreVars, flVars, yrVars, cfVars, mgVars>>

\* line 97: "import kaggle" fails (ImportError), or authenticates on import
\* and finds no credentials (OSError); the API is not reached
KaggleUnavailable(e) ==
    /\ yl_pc = "downloading"
    /\ yl_ret' = IF e = "OSError" THEN failed("Kaggle authentication", "auth_failed")
                 ELSE failed("Download failed", "download_failed")
    /\ yl_pc' = "returned"
    /\ UNCHANGED <<download_dir, target_files, validate, yl_api_calls, yl_calls,
                   yl_dir_before>>
    /\ UNCHANGED <<coreVars, flVars, yrVars, cfVars, mgVars>>

\* lines 104-108 raise, after leaving the files "names" behind
KaggleRaises(e, names) ==
    /\ yl_pc = "downloading"
    /\ yl_api_calls' = yl_api_calls + 1
    /\ download_dir' = unzipped(download_dir, names, "empty")
    /\ yl_ret' = IF e = "OSError" THEN failed("Kaggle authentication", "auth_failed")
                 ELSE failed("Download failed", "download_failed")
    /\ yl_pc' = "returned"
    /\ UNCHANGED <<target_files, validate, yl_calls, yl_dir_before>>
    /\ UNCHANGED <<coreVars, flVars, yrVars, cfVars, mgVars>>

\* lines 104-131 and 155-178: the API returns with the files "names" extracted
KaggleDownload(names, content) ==
    /\ yl_pc = "downloading"
    /\ yl_api_calls' = yl_api_calls + 1
    /\ download_dir' = unzipped(download_dir, names, content)
    /\ LET still_missing ==
               files_to_download(download_dir', target_list(target_files))
       IN  yl_ret' = IF still_missing # <<>>
                     THEN failed("Download incomplete", "extraction_failed")
                     ELSE step3(download_dir', validate,
                                "Download completed successfully", "downloaded")
    /\ yl_pc' = "returned"
    /\ UNCHANGED <<target_files, validate, yl_calls, yl_dir_before>>
    /\ UNCHANGED <<coreVars, flVars, yrVars, cfVars, mgVars>>

NextYelp ==
    \/ \E t \in TargetFiles, v \in BOOLEAN : YelpCall(t, v)
    \/ \E e \in {"OSError", "ImportError"} : KaggleUnavailable(e)
    \/ \E e \in {"OSError", "Exception"}, names \in {{}, {BusinessJson}} :
          KaggleRaises(e, names)
    \/ \E names \in Extracted, content \in {"good", "lacks_columns"} :
          KaggleDownload(names, content)

YelpAtRest ==
    /\ download_dir = [n \in Range(TARGET_FILES) |-> "absent"]
    /\ yl_dir_before = download_dir
    /\ YelpLocalsStart

\* ------------------------------------------------------------------------
\* The specifications: each runs one part and leaves the others at rest
\* ------------------------------------------------------------------------
ConvAtRest ==
    /\ json_file = <<>> /\ json_status = "ok" /\ json_size_mb = 0
    /\ ConvLocalsStart

ExtractAtRest ==
    /\ ex_fn = None /\ business_df = <<>> /\ has_business_df = FALSE
    /\ business_columns = BusinessSelected
    /\ review_file = <<>> /\ user_file = <<>> /\ target_years = AllYears
    /\ city = None /\ state = None
    /\ ExtractLocalsStart

DownloadAtRest ==
    /\ dl_file = <<>> /\ dl_city = None /\ dl_date = None /\ dl_type = None
    /\ dl_pc = "idle" /\ dl_requests = <<>> /\ dl_response = None
    /\ dl_ret = None /\ dl_error = None /\ dl_calls = 0 /\ dl_file_before = <<>>
    /\ dl_origin = "none" /\ dl_history = <<>>

ValidateAtRest ==
    /\ reviews_columns = {} /\ listings_columns = {}
    /\ val_pc = "idle" /\ val_ret = None

ClassifyIdle == cl_categories = [kind |-> "None"] /\ cl_pc = "idle" /\ cl_ret = None

FilterIdle ==
    /\ ft_df = <<>> /\ ft_columns = {} /\ ft_city = None /\ ft_state = None
    /\ establishment_types = [str |-> FALSE, list |-> <<>>] /\ ft_pc = "idle" /\ df_filtered = <<>>
    /\ ft_error = None

FilterAtRest == ClassifyIdle /\ FilterIdle

UtilAtRest ==
    /\ YelpAtRest
    /\ MergeAtRest
    /\ CheckFileAtRest
    /\ YearsAtRest
    /\ FilterAtRest

OthersAtRest == DownloadAtRest /\ ValidateAtRest /\ UtilAtRest

TemporalAtRest ==
    /\ tm_dates = <<>> /\ tm_pc = "idle" /\ tm_fn = None /\ tm_out = <<>>

CoreAtRest ==
    ConvAtRest /\ ExtractAtRest /\ TemporalAtRest /\ DownloadAtRest /\ ValidateAtRest

InitConv == ConvStart /\ ExtractAtRest /\ TemporalAtRest /\ OthersAtRest
SpecConv == InitConv /\ [][NextConv]_vars

\* The conversion in an environment where a run may also be stopped inside a
\* chunk write.
NextStop ==
    \/ \E p \in Prefixes, k \in 1..MaxChunkSize : Call(p, k)
    \/ ReadLine
    \/ Finish
    \/ Interrupt
    \/ InterruptWrite
    \/ ChangeSource

InitStop == ConvStart /\ ExtractAtRest /\ TemporalAtRest /\ OthersAtRest
SpecStop == InitStop /\ [][NextStop]_vars

InitOpen == OpenStart /\ ExtractAtRest /\ TemporalAtRest /\ OthersAtRest
SpecOpen == InitOpen /\ [][NextOpen]_vars

InitProgress == ProgressStart /\ ExtractAtRest /\ TemporalAtRest /\ OthersAtRest
SpecProgress == InitProgress /\ [][NextProgress]_vars

\* One call of any of the four scanning functions, in an environment where
\* the source may be missing, unreadable or undecodable, a chunk write may
\* fail and the scan may be interrupted.
HandlesStart ==
    \/ /\ json_file \in
              {f \in SeqsUpTo(Lines \cup {Undecodable(k) : k \in 1..MaxLines},
                              MaxLines) : block_layout(f)}
       /\ json_status \in {"ok", "missing", "unreadable"}
       /\ json_size_mb = 1
       /\ ConvLocalsStart
       /\ ExtractAtRest
    \/ /\ ConvAtRest
       /\ ExtractArgs({<<>>} \cup {<<b>> : b \in BusinessRows})
       /\ ExtractLocalsStart

\* the steps of the conversion, when the conversion is the function called
IOCall == ex_fn = None /\ \E p \in Prefixes, k \in 1..MaxChunkSize : Call(p, k)
IOReadLine == ex_fn = None /\ ReadLine
IOWriteFails == ex_fn = None /\ WriteFails
IOFinish == ex_fn = None /\ Finish
IOTailWriteFails == ex_fn = None /\ TailWriteFails
IOInterrupt == ex_fn = None /\ Interrupt
IORestoreSource == ex_fn = None /\ RestoreSource

NextIO ==
    \/ IOCall
    \/ IOReadLine
    \/ IOWriteFails
    \/ IOFinish
    \/ IOTailWriteFails
    \/ IOInterrupt
    \/ IORestoreSource

NextHandles ==
    \/ NextIO
    \/ NextExtract

InitHandles == HandlesStart /\ TemporalAtRest /\ OthersAtRest
SpecHandles == InitHandles /\ [][NextHandles]_vars

InitDownload ==
    /\ DownloadStart /\ ConvAtRest /\ ExtractAtRest /\ TemporalAtRest
    /\ ValidateAtRest /\ UtilAtRest
SpecDownload == InitDownload /\ [][NextDownload]_vars

InitValidate ==
    /\ ValidateStart /\ ConvAtRest /\ ExtractAtRest /\ TemporalAtRest
    /\ DownloadAtRest /\ UtilAtRest
SpecValidate == InitValidate /\ [][NextValidate]_vars

InitExtract == ExtractStart /\ ConvAtRest /\ TemporalAtRest /\ OthersAtRest
SpecExtract == InitExtract /\ [][NextExtract]_vars

InitTemporal == TemporalStart /\ ConvAtRest /\ ExtractAtRest /\ OthersAtRest
SpecTemporal == InitTemporal /\ [][NextTemporal]_vars

InitClassify ==
    /\ ClassifyStart /\ FilterIdle /\ CoreAtRest /\ YearsAtRest /\ CheckFileAtRest /\ MergeAtRest /\ YelpAtRest
SpecClassify == InitClassify /\ [][NextClassify]_vars

InitFilter ==
    /\ FilterStart /\ ClassifyIdle /\ CoreAtRest /\ YearsAtRest /\ CheckFileAtRest /\ MergeAtRest /\ YelpAtRest
SpecFilter == InitFilter /\ [][NextFilter]_vars

InitYears ==
    /\ YearsStart
    /\ CoreAtRest /\ FilterAtRest /\ CheckFileAtRest /\ MergeAtRest /\ YelpAtRest
SpecYears == InitYears /\ [][NextYears]_vars

InitCheckFile ==
    /\ CheckFileStart
    /\ CoreAtRest /\ YearsAtRest /\ FilterAtRest /\ MergeAtRest /\ YelpAtRest
SpecCheckFile == InitCheckFile /\ [][NextCheckFile]_vars

InitMerge ==
    /\ MergeStart
    /\ CoreAtRest /\ CheckFileAtRest /\ YearsAtRest /\ FilterAtRest /\ YelpAtRest
SpecMerge == InitMerge /\ [][NextMerge]_vars

InitYelp ==
    /\ YelpStart
    /\ CoreAtRest /\ MergeAtRest /\ CheckFileAtRest /\ YearsAtRest /\ FilterAtRest
SpecYelp == InitYelp /\ [][NextYelp]_vars

\* ========================================================================
\* Claims about the conversion (SpecConv)
\* ========================================================================
\* What the claims speak of, written independently of the actions.
RECURSIVE ValidRecords(_)
ValidRecords(file) ==
    IF file = <<>> THEN <<>>
    ELSE IF Head(file).json THEN <<Head(file).obj>> \o ValidRecords(Tail(file))
         ELSE ValidRecords(Tail(file))

MalformedLineNumbers(file) ==
    LET F[i \in 0..Len(file)] ==
            IF i = 0 THEN <<>>
            ELSE IF file[i].json THEN F[i - 1] ELSE Append(F[i - 1], i)
    IN  F[Len(file)]

DigitValue(c) == CHOOSE d \in 0..9 : DigitChars[d + 1] = c

RECURSIVE ParseDecimal(_)
ParseDecimal(ds) ==
    IF ds = <<>> THEN 0
    ELSE 10 * ParseDecimal(SubSeq(ds, 1, Len(ds) - 1)) + DigitValue(ds[Len(ds)])

NameDigits(name) == SubSeq(name, 3, Len(name) - 1)
ChunkIndex(name) == ParseDecimal(NameDigits(name))

\* the files of a directory named <prefix>_chunk_<anything>.parquet
ChunkFilesOf(directory, prefix) ==
    {f \in directory : f.name[1] = prefix /\ f.name[2] = "_chunk_"
                       /\ f.name[Len(f.name)] = ".parquet"}

ChunkAt(chunks, i) == CHOOSE f \in chunks : ChunkIndex(f.name) = i

RECURSIVE ConcatChunks(_, _)
ConcatChunks(chunks, n) ==
    IF n = 0 THEN <<>>
    ELSE ConcatChunks(chunks, n - 1) \o ChunkAt(chunks, n - 1).content

CeilDiv(n, k) == (n + k - 1) \div k

FreshReturn == cv_pc = "returned" /\ ChunkFilesOf(dir_before, file_prefix) = {}
SkipReturn == cv_pc = "returned" /\ ChunkFilesOf(dir_before, file_prefix) # {}

\* C1: a fresh conversion of n valid records with chunk size k leaves
\* ceil(n/k) chunk files, all but the last of exactly k records, whose
\* concatenation in index order is the valid records in file order.
C1_FreshChunking ==
    FreshReturn =>
        LET chunks == ChunkFilesOf(output_dir, file_prefix)
            n == Len(ValidRecords(json_file))
            c == CeilDiv(n, chunk_size)
        IN  /\ Cardinality(chunks) = c
            /\ \A i \in 0..(c - 1) : \E f \in chunks : ChunkIndex(f.name) = i
            /\ \A i \in 0..(c - 2) : Len(ChunkAt(chunks, i).content) = chunk_size
            /\ c > 0 => Len(ChunkAt(chunks, c - 1).content) \in 1..chunk_size
            /\ ConcatChunks(chunks, c) = ValidRecords(json_file)

\* a fresh conversion that wrote a full chunk and then a shorter last one
C1_Witness ==
    /\ FreshReturn
    /\ chunk_size = 2
    /\ Len(ValidRecords(json_file)) = 3
    /\ Cardinality(ChunkFilesOf(output_dir, file_prefix)) = 2

\* C2: a call that finds chunk files of its prefix changes no file, reads no
\* line of the source and returns (True, number of those files, _), also
\* when the source no longer is what the chunks were made from.
C2_SkipIsNoOp ==
    SkipReturn =>
        /\ output_dir = dir_before
        /\ written = <<>>
        /\ line_num = 0 /\ total_records = 0 /\ warnings = <<>>
        /\ cv_ret.success = TRUE
        /\ cv_ret.chunk_count = Cardinality(ChunkFilesOf(dir_before, file_prefix))

\* a skipped call over a source whose records are not what the chunks hold
C2_Witness ==
    /\ SkipReturn
    /\ partial[file_prefix] = {}
    /\ LET chunks == ChunkFilesOf(output_dir, file_prefix)
       IN  ConcatChunks(chunks, Cardinality(chunks)) # ValidRecords(json_file)

\* C3: during and after a fresh scan the warnings are exactly the 1-based
\* numbers of the malformed lines read so far, in order, every valid line read
\* so far is kept in order (in a chunk or in the accumulator), and the scan
\* only returns at end of file.
C3_MalformedSkipped ==
    (cv_pc = "scan" \/ FreshReturn) =>
        LET read == SubSeq(json_file, 1, line_num)
            chunks == ChunkFilesOf(output_dir, file_prefix)
        IN  /\ warnings = MalformedLineNumbers(read)
            /\ total_records = Len(ValidRecords(read))
            /\ Cardinality(chunks) = chunk_count
            /\ ConcatChunks(chunks, chunk_count)
                   \o (IF cv_pc = "scan" THEN records ELSE <<>>) = ValidRecords(read)
            /\ FreshReturn => line_num = Len(json_file)

\* a finished scan of valid, malformed, valid: one warning, both records kept
C3_Witness ==
    /\ FreshReturn
    /\ Len(json_file) = 3
    /\ json_file[1].json /\ ~json_file[2].json /\ json_file[3].json
    /\ warnings = <<2>>
    /\ total_records = 2

\* C9: once a conversion was interrupted with a chunk file of the prefix on
\* disk, the chunk files of that prefix stay what they were, and every later
\* call for the prefix returns success without scanning or writing.
C9_PartialIsSkipped ==
    \A p \in Prefixes :
        partial[p] # {} =>
            /\ ChunkFilesOf(output_dir, p) = partial[p]
            /\ (file_prefix = p /\ cv_pc \in {"scan", "returned", "raised"}) =>
                   /\ cv_pc = "returned"
                   /\ cv_ret.success = TRUE
                   /\ written = <<>>
                   /\ line_num = 0

\* C10: the i-th file a fresh conversion writes is <prefix>_chunk_<5 digits
\* reading i-1>.parquet, and the returned chunk_count is the number of files
\* written.
C10_SequentialNames ==
    (cv_pc = "scan" \/ FreshReturn) =>
        /\ Len(written) = chunk_count
        /\ \A i \in 1..Len(written) :
              /\ written[i][1] = file_prefix
              /\ written[i][2] = "_chunk_"
              /\ written[i][Len(written[i])] = ".parquet"
              /\ Len(NameDigits(written[i])) = 5
              /\ ChunkIndex(written[i]) = i - 1
        /\ {f.name : f \in output_dir \ dir_before} = Range(written)
        /\ Cardinality(Range(written)) = Len(written)
        /\ FreshReturn => cv_ret.chunk_count = Len(written)

\* a fresh conversion that wrote three files
C10_Witness ==
    /\ FreshReturn
    /\ Len(written) = 3
    /\ cv_ret.chunk_count = 3

\* ========================================================================
\* Claims about the extraction (SpecExtract)
\* ========================================================================
ExtractEnded == ex_fn = "extract_city_dataset" /\ ex_pc \in {"returned", "raised"}

AllLinesValid(file) == \A i \in 1..Len(file) : file[i].json
AllDatesValid(file) ==
    \A i \in 1..Len(file) :
        file[i].json => (file[i].obj.date # NoDate /\ ValidDate(file[i].obj.date))

\* the inputs the malformed-line and malformed-date cases play no part in
CleanInputs ==
    AllLinesValid(review_file) /\ AllLinesValid(user_file) /\ AllDatesValid(review_file)

\* the businesses of the frame in the city and state asked for
CityBusinessIds ==
    {business_df[i].business_id : i \in {j \in 1..Len(business_df) :
        business_df[j].city = city /\ business_df[j].state = state}}

\* the review ids of the file that the filter keeps
ExpectedReviewIds ==
    {i \in 1..Len(review_file) :
        /\ review_file[i].json
        /\ review_file[i].obj.business_id \in CityBusinessIds
        /\ (target_years.none \/ review_file[i].obj.date[1] \in target_years.years)}

UserIdsInFile ==
    {user_file[i].obj.user_id : i \in {j \in 1..Len(user_file) : user_file[j].json}}

RowsOf(df, rid) == {i \in 1..Len(df) : df[i].review_id = rid}

\* C4: in the scans of extract_city_dataset and check_dataset_date_range a
\* malformed JSON line is skipped: no call ends with the decode error of a
\* line.
C4_ScansSkipMalformed ==
    ex_pc = "raised" => ex_error # JSONDecodeError

\* C5: a call of extract_city_dataset that retained a review whose user is
\* not in the user file returns, with exactly one row for that review, its
\* review fields as read and its user fields null.
C5_LeftJoinTotal ==
    (ExtractEnded /\ CleanInputs) =>
        \A k \in 1..Len(reviews) :
            reviews[k].user_id \notin UserIdsInFile =>
                /\ ex_pc = "returned"
                /\ \E i \in 1..Len(df_final) :
                      /\ RowsOf(df_final, reviews[k].review_id) = {i}
                      /\ df_final[i].user_name = None
                      /\ df_final[i].business_id = reviews[k].business_id
                      /\ df_final[i].user_id = reviews[k].user_id
                      /\ df_final[i].review_date = reviews[k].review_date

\* C6: extract_city_dataset returns exactly the reviews of the file whose
\* business is in the city and state and whose year is wanted, and every
\* returned year is a wanted year.
C6_ExactlyTheFilteredReviews ==
    (ExtractEnded /\ CleanInputs) =>
        /\ ex_pc = "returned"
        /\ {df_final[i].review_id : i \in 1..Len(df_final)} = ExpectedReviewIds
        /\ \A i \in 1..Len(df_final) :
              target_years.none \/ \E y \in target_years.years : df_final[i].year = <<y>>

\* ========================================================================
\* Claims about the temporal feature derivation (SpecTemporal)
\* ========================================================================
Seasons == {"Winter", "Spring", "Summer", "Fall"}

\* the mapping of section 3 of the specification
SeasonTable ==
    [m \in 1..12 |-> IF m \in {12, 1, 2} THEN "Winter"
                     ELSE IF m \in {3, 4, 5} THEN "Spring"
                     ELSE IF m \in {6, 7, 8} THEN "Summer"
                     ELSE "Fall"]

\* C7: for every row with a date, the season either function derives is the
\* season of the fixed table for the row's month, whatever the year, and the
\* two get_season functions agree on that month.
C7_SeasonFixed ==
    tm_pc = "returned" =>
        \A i \in 1..Len(tm_dates) :
            tm_dates[i] # NoDate =>
                LET m == tm_dates[i][2]
                IN  /\ tm_out[i].season \in Seasons
                    /\ tm_out[i].season = SeasonTable[m]
                    /\ get_season(<<m>>) = add_seasons_get_season(<<m>>)
                    /\ \A j \in 1..Len(tm_dates) :
                          (tm_dates[j] # NoDate /\ tm_dates[j][2] = m)
                              => tm_out[j].season = tm_out[i].season

\* two Decembers of different years, both Winter
C7_Witness ==
    /\ tm_pc = "returned"
    /\ Len(tm_dates) = 2
    /\ tm_dates[1] = <<2013, 12, 15>> /\ tm_dates[2] = <<2016, 12, 15>>
    /\ tm_out[1].season = "Winter" /\ tm_out[2].season = "Winter"

\* C8: the derivation never aborts on a malformed or missing date, and the
\* year, month, quarter, day_of_week and season of such a row are missing.
C8_BadDateGivesMissingFields ==
    tm_pc # "idle" =>
        /\ tm_pc = "returned"
        /\ \A i \in 1..Len(tm_dates) :
              (tm_dates[i] = NoDate \/ ~ValidDate(tm_dates[i])) =>
                  /\ tm_out[i].year = NaN
                  /\ tm_out[i].month = NaN
                  /\ tm_out[i].season \notin Seasons
                  /\ tm_fn = "add_seasons" =>
                        (tm_out[i].quarter = NaN /\ tm_out[i].day_of_week = NaN)

\* ========================================================================
\* Further claims about the conversion (SpecConv)
\* ========================================================================
FileNames(directory) == {f.name : f \in directory}

\* the number of records in the chunk files of a prefix
TotalStored(directory, prefix) ==
    LET chunks == ChunkFilesOf(directory, prefix)
    IN  Len(ConcatChunks(chunks, Cardinality(chunks)))

\* C11: over any sequence of calls no step changes or removes a file that is
\* in the directory, every file a run writes has a name that was not there
\* before, and a run that finds chunk files of its prefix never scans or writes.
C11_ChunksNeverRewritten ==
    [][/\ \A f \in output_dir : f \in output_dir'
       /\ (written' # written /\ written' # <<>>) =>
              /\ written'[Len(written')] \notin FileNames(output_dir)
              /\ written'[Len(written')] \notin Range(written)
       /\ cv_pc' = "scan" => ChunkFilesOf(dir_before', file_prefix') = {}
       /\ ChunkFilesOf(dir_before', file_prefix') # {} => written' = <<>>]_vars

\* a second call for the prefix, after the source changed, that left the two
\* files of the first call alone
C11_Witness ==
    /\ calls = 2
    /\ SkipReturn
    /\ written = <<>>
    /\ Cardinality(ChunkFilesOf(output_dir, file_prefix)) = 2
    /\ partial[file_prefix] = {}
    /\ TotalStored(output_dir, file_prefix) # Len(ValidRecords(json_file))

\* C17 as stated: the accumulator never holds more than chunk_size records,
\* holds fewer at the start of every iteration, and is empty right after
\* every chunk write.
C17_EmptiedAfterEveryWrite ==
    [][/\ cv_pc' \in {"scan", "returned"} => Len(records') <= chunk_size'
       /\ cv_pc' = "scan" => Len(records') < chunk_size'
       /\ (written' # written /\ written' # <<>>) => records' = <<>>]_vars

\* C17, amended: during a scan the accumulator holds exactly the records
\* read since the last chunk write, fewer than chunk_size of them, so every
\* write inside the loop empties it; the trailing write after end of file
\* leaves its (fewer than chunk_size) records in it until the return.
C17_AccumulatorBounded ==
    /\ cv_pc = "scan" =>
          /\ Len(records) < chunk_size
          /\ Len(records) = total_records - chunk_size * chunk_count
    /\ FreshReturn =>
          /\ Len(records) < chunk_size
          /\ records # <<>> =>
                records = ChunkAt(ChunkFilesOf(output_dir, file_prefix),
                                  chunk_count - 1).content

\* a scan that has just written a full chunk and emptied the accumulator,
\* with lines still to read
C17_Witness ==
    /\ cv_pc = "scan"
    /\ chunk_size = 2
    /\ chunk_count = 1
    /\ records = <<>>
    /\ line_num < Len(json_file)

\* C20 as stated: on every successful return total_records is the number of
\* records in the chunk files of the prefix.
C20_TotalIsStoredTotal ==
    cv_pc = "returned" =>
        cv_ret.total_records = TotalStored(output_dir, file_prefix)

\* C20, amended: a fresh conversion returns the number of records in the
\* chunk files of the prefix; a skipped call returns the number of chunk
\* files times the length of one of them, which is the number of records
\* stored when all chunk files have the same length.
C20_TotalOrEstimate ==
    LET chunks == ChunkFilesOf(output_dir, file_prefix)
    IN  /\ FreshReturn =>
              cv_ret.total_records = TotalStored(output_dir, file_prefix)
        /\ SkipReturn =>
              /\ \E f \in chunks :
                    cv_ret.total_records = Cardinality(chunks) * Len(f.content)
              /\ (\A f, g \in chunks : Len(f.content) = Len(g.content)) =>
                    cv_ret.total_records = TotalStored(output_dir, file_prefix)

\* a skipped call over chunks of 2 and 1 records that returned 4
C20_Witness ==
    /\ SkipReturn
    /\ Cardinality(ChunkFilesOf(output_dir, file_prefix)) = 2
    /\ TotalStored(output_dir, file_prefix) = 3
    /\ cv_ret.total_records = 4

\* ========================================================================
\* Claims about a source that cannot be opened (SpecOpen)
\* ========================================================================
OSErrorClass == {"OSError", "FileNotFoundError", "PermissionError"}

\* C14: a call whose source cannot be opened while no chunk of the prefix
\* exists never scans: it ends with an error of the OSError class, has
\* written nothing and leaves the directory as it found it; a call that then
\* finds the source readable converts all of it.
C14_UnopenableSourceWritesNothing ==
    /\ (cv_pc \in {"scan", "returned"} /\ ChunkFilesOf(dir_before, file_prefix) = {})
           => json_status = "ok"
    /\ cv_pc = "raised" =>
          /\ cv_error \in OSErrorClass
          /\ cv_ret = None
          /\ ChunkFilesOf(dir_before, file_prefix) = {}
          /\ written = <<>> /\ line_num = 0
          /\ output_dir = dir_before
    /\ FreshReturn =>
          /\ cv_ret.success = TRUE
          /\ cv_ret.total_records = Len(ValidRecords(json_file))
          /\ LET chunks == ChunkFilesOf(output_dir, file_prefix)
             IN  ConcatChunks(chunks, Cardinality(chunks)) = ValidRecords(json_file)

\* the second call converted the two records of a source that the first call,
\* which wrote nothing, could not open
C14_Witness ==
    /\ calls = 2
    /\ FreshReturn
    /\ dir_before = {}
    /\ chunk_size = 1
    /\ Len(written) = 2
    /\ cv_ret.total_records = 2

\* ========================================================================
\* Claims about the progress lines (SpecProgress)
\* ========================================================================
\* the progress lines after m chunk writes inside the loop, one every n
ProgressLines(m, n, k) ==
    [i \in 1..(m \div n) |-> [chunks |-> i * n, records |-> i * n * k]]

\* C16 as stated: a file of 500 MB or more gets a smaller interval than a
\* file below 500 MB, and a progress line is printed exactly when the number
\* of completed chunks is a positive multiple of the interval.
C16_LargeFileSmallerInterval ==
    (cv_pc = "scan" \/ FreshReturn) =>
        /\ json_size_mb >= 500 =>
              progress_interval < progress_interval_of(499)
        /\ progress = ProgressLines(chunk_count, progress_interval, chunk_size)

\* C16, amended: the interval is 10 chunks for a file below 500 MB and 50
\* chunks, more, for a file of 500 MB or more; a progress line is printed
\* exactly when the number of chunks written inside the loop (the full
\* chunks) is a positive multiple of the interval.
C16_ProgressEveryNChunks ==
    (cv_pc = "scan" \/ FreshReturn) =>
        LET full_chunks == total_records \div chunk_size
        IN  /\ progress_interval = (IF json_size_mb < 500 THEN 10 ELSE 50)
            /\ json_size_mb >= 500 =>
                  progress_interval > progress_interval_of(499)
            /\ json_size_mb < 500 =>
                  progress_interval < progress_interval_of(500)
            /\ cv_pc = "scan" => chunk_count = full_chunks
            /\ progress = ProgressLines(full_chunks, progress_interval, chunk_size)

\* a file of 500 MB whose first progress line came with the 50th chunk, and
\* none before
C16_Witness ==
    /\ cv_pc = "scan"
    /\ json_size_mb = 500
    /\ chunk_count = 50
    /\ progress = <<[chunks |-> 50, records |-> 50]>>

\* ========================================================================
\* Claims about the read handles (SpecHandles)
\* ========================================================================
\* C15: the handle of the source is open exactly while its scan runs: the
\* conversion, extract_city_dataset (review file, then user file),
\* check_dataset_date_range and count_records hold no open handle before the
\* scan, after a return, after an error that ended the call, or after an
\* interruption.
C15_HandlesClosedAfterScan ==
    /\ cv_handle <=> cv_pc = "scan"
    /\ ex_handles = CASE ex_pc \in {"scan_reviews", "scan_range", "count"}
                           -> {"review_file"}
                      [] ex_pc = "scan_users" -> {"user_file"}
                      [] OTHER -> {}
    /\ (cv_pc \in {"returned", "raised", "interrupted"}
           \/ ex_pc \in {"returned", "raised"})
          => ~cv_handle /\ ex_handles = {}

\* a conversion ended by a failed write of its second chunk, handle closed
C15_Witness ==
    /\ cv_pc = "raised"
    /\ cv_error = "OSError"
    /\ Len(written) = 1
    /\ line_num < Len(json_file)
    /\ ~cv_handle

\* ========================================================================
\* Further claims about the extraction (SpecExtract)
\* ========================================================================
\* C18: a call of extract_city_dataset whose business_df has the columns
\* business_id, city and state returns a frame, whatever other business
\* columns are absent (here on well-formed files with at least one retained
\* review and one retained user, so that no other error is in play).
C18_RequiredColumnsSuffice ==
    (/\ ExtractEnded
     /\ BusinessRequired \subseteq business_columns
     /\ CleanInputs
     /\ reviews # <<>> /\ users # <<>>)
        => ex_pc = "returned"

\* the reviews of the file that pass the filter of check_dataset_date_range
RangePassing ==
    {i \in 1..Len(review_file) :
        /\ review_file[i].json
        /\ (city # None \/ state # None) =>
              \E j \in 1..Len(business_df) :
                  /\ business_df[j].business_id = review_file[i].obj.business_id
                  /\ city # None => business_df[j].city = city
                  /\ state # None => business_df[j].state = state}

RangeDates == {review_file[i].obj.date : i \in RangePassing} \ {NoDate}

RangeEnded == ex_fn = "check_dataset_date_range" /\ ex_pc \in {"returned", "raised"}

\* C19: check_dataset_date_range raises ValueError before reading a line
\* when city or state is given without business_df; otherwise it returns the
\* number of reviews passing the filter and the smallest and largest of their
\* dates (None when none has a date), min_date <= max_date.
C19_DateRangeResult ==
    RangeEnded =>
        IF (city # None \/ state # None) /\ ~has_business_df
        THEN ex_pc = "raised" /\ ex_error = "ValueError" /\ ex_i = 0
        ELSE /\ ex_pc = "returned"
             /\ total_reviews = Cardinality(RangePassing)
             /\ IF RangeDates = {}
                THEN min_date = NoDate /\ max_date = NoDate
                ELSE /\ min_date \in RangeDates /\ max_date \in RangeDates
                     /\ \A d \in RangeDates :
                           ~str_less(d, min_date) /\ ~str_less(max_date, d)
                     /\ ~str_less(max_date, min_date)

\* ========================================================================
\* Claims about the download (SpecDownload)
\* ========================================================================
Supported == {"chicago", "los_angeles"}

\* C12 as stated: for a supported city, a call that finds the destination
\* returns (True, skip message), requests nothing and leaves the file as it
\* is; a call that does not find it makes exactly one GET request, to the URL
\* of the arguments, and on success the file holds the bytes of the response;
\* a failed request or a status outside 200..299 gives (False, message), and
\* no request error ever leaves the function.
C12_SkipOrOneGet ==
    (dl_pc # "idle" /\ dl_city \in Supported) =>
        /\ dl_file_before # <<>> =>
              /\ dl_pc = "returned"
              /\ dl_ret.success = TRUE
              /\ dl_ret.message[1] = "[SKIP] File exists"
              /\ dl_requests = <<>>
              /\ dl_file = dl_file_before
        /\ dl_file_before = <<>> =>
              /\ Len(dl_requests) = 1
              /\ dl_requests[1][2] = (IF dl_city = "chicago"
                                      THEN "united-states/il/chicago"
                                      ELSE "united-states/ca/los-angeles")
              /\ dl_requests[1][4] = dl_date /\ dl_requests[1][6] = dl_type
              /\ (dl_pc = "returned" /\ dl_ret.success) =>
                    /\ dl_response.raises = FALSE
                    /\ dl_response.status_code \in 200..299
                    /\ dl_file = <<dl_response.content>>
              /\ (dl_pc \in {"returned", "raised"}
                    /\ (dl_response.raises \/ dl_response.status_code \notin 200..299)) =>
                    /\ dl_pc = "returned"
                    /\ dl_ret.success = FALSE
                    /\ dl_ret.message[1] = "Download failed"
                    /\ dl_file = <<>>
        /\ dl_pc = "raised" => dl_error \notin RequestExceptions

\* the statuses for which raise_for_status raises HTTPError
ErrorStatus == 400..599

\* C12, amended: for a supported city, a call that finds the destination
\* returns (True, skip message), requests nothing and leaves the file as it
\* is; a call that does not find it makes exactly one GET request, to the URL
\* of the arguments; a failed request or a 4xx/5xx status gives
\* (False, message) and no file, and no request error ever leaves the
\* function; a response with any other status, 2xx or not, is written to the
\* destination byte for byte and reported as (True, downloaded).
C12_RequestErrorsReturned ==
    (dl_pc # "idle" /\ dl_city \in Supported) =>
        /\ dl_file_before # <<>> =>
              /\ dl_pc = "returned"
              /\ dl_ret.success = TRUE
              /\ dl_ret.message[1] = "[SKIP] File exists"
              /\ dl_requests = <<>>
              /\ dl_file = dl_file_before
        /\ dl_file_before = <<>> =>
              /\ Len(dl_requests) = 1
              /\ dl_requests[1][2] = (IF dl_city = "chicago"
                                      THEN "united-states/il/chicago"
                                      ELSE "united-states/ca/los-angeles")
              /\ dl_requests[1][4] = dl_date /\ dl_requests[1][6] = dl_type
              /\ (dl_pc = "returned" /\ dl_ret.success) =>
                    /\ dl_response.raises = FALSE
                    /\ dl_response.status_code \notin ErrorStatus
                    /\ dl_file = <<dl_response.content>>
              /\ (dl_pc \in {"returned", "raised"}
                    /\ (dl_response.raises \/ dl_response.status_code \in ErrorStatus)) =>
                    /\ dl_pc = "returned"
                    /\ dl_ret.success = FALSE
                    /\ dl_ret.message[1] = "Download failed"
                    /\ dl_file = <<>>
              /\ (dl_pc = "returned" /\ ~dl_response.raises
                    /\ dl_response.status_code \notin ErrorStatus) =>
                    /\ dl_ret.success = TRUE
                    /\ dl_ret.message[1] = "Downloaded successfully"
                    /\ dl_file = <<dl_response.content>>
        /\ dl_pc = "raised" => dl_error \notin RequestExceptions

\* after a call that failed with status 404, a call whose response 304 was
\* written and reported as downloaded
C12_Witness ==
    /\ dl_calls = 2
    /\ dl_city \in Supported
    /\ dl_history = <<"failed", "downloaded">>
    /\ dl_pc = "returned"
    /\ dl_response.raises = FALSE
    /\ dl_response.status_code = 304
    /\ dl_ret.success = TRUE
    /\ dl_file = <<<<31, 139>>>>

\* ========================================================================
\* Claims about the structure validation (SpecValidate)
\* ========================================================================
\* C13: the validation always returns; the reported lists hold, once each,
\* exactly the required columns the frame lacks, and valid is true exactly
\* when both lists are empty.
C13_MissingColumnsExact ==
    val_pc # "idle" =>
        /\ val_pc = "returned"
        /\ LET mr == val_ret.missing_cols.reviews
               ml == val_ret.missing_cols.listings
           IN  /\ Range(mr) = {"listing_id", "date", "comments"} \ reviews_columns
               /\ Range(ml) = {"id", "property_type", "room_type", "latitude",
                               "longitude"} \ listings_columns
               /\ Cardinality(Range(mr)) = Len(mr)
               /\ Cardinality(Range(ml)) = Len(ml)
               /\ val_ret.valid = (mr = <<>> /\ ml = <<>>)

\* complete listings and reviews without a date: invalid, one column reported
C13_Witness ==
    /\ val_pc = "returned"
    /\ val_ret.valid = FALSE
    /\ val_ret.missing_cols.reviews = <<"date">>
    /\ val_ret.missing_cols.listings = <<>>
    /\ "price" \in listings_columns

\* ========================================================================
\* Claims about the rows of the extraction (SpecExtract)
\* ========================================================================
\* a call on well-formed files and a business frame with every selected column
WellFormedCall ==
    /\ ExtractEnded
    /\ CleanInputs
    /\ BusinessSelected \subseteq business_columns

\* C27: the frame extract_city_dataset returns has one row for each review
\* the filter retains, and no other row, also when a business_id occurs in
\* two rows of business_df or a user_id in two lines of the user file.
C27_OneRowPerReview ==
    (WellFormedCall /\ reviews # <<>> /\ users # <<>>) =>
        /\ ex_pc = "returned"
        /\ Len(df_final) = Cardinality(ExpectedReviewIds)
        /\ \A i \in ExpectedReviewIds : Cardinality(RowsOf(df_final, i)) = 1

\* C28: when no review of the file passes the city, state and year filter,
\* extract_city_dataset returns a frame of zero rows.
C28_NoMatchGivesEmptyFrame ==
    (WellFormedCall /\ ExpectedReviewIds = {}) =>
        /\ ex_pc = "returned"
        /\ df_final = <<>>

\* ========================================================================
\* Claims about repeated downloads (SpecDownload)
\* ========================================================================
SkipResult ==
    /\ dl_pc = "returned"
    /\ dl_ret.success = TRUE
    /\ dl_ret.message[1] = "[SKIP] File exists"

\* C29 as stated: a call that returns (False, message) leaves no destination
\* file behind, and the skip result is returned only when the file
\* pre-existed or an earlier download wrote the complete response.
C29_SkipOnlyAfterCompleteDownload ==
    /\ (dl_pc = "returned" /\ dl_ret.success = FALSE) => dl_file = dl_file_before
    /\ SkipResult => dl_origin \in {"preexisting", "complete"}

\* C29, amended: a call that returns (False, message) changes nothing at the
\* destination, so a call for a supported city that follows only failed calls
\* on an absent file requests the download again; the skip result is returned
\* exactly when the file exists when the call begins, which is the case when
\* it pre-existed, when an earlier download wrote the complete response, or
\* when an earlier call was cut off by an error of open() or write() that
\* left a file with none or part of the bytes.
C29_FailedCallLeavesNoFile ==
    /\ (dl_pc = "returned" /\ dl_ret.success = FALSE) =>
          /\ dl_file = dl_file_before
          /\ dl_city \in Supported => dl_file = <<>>
    /\ (dl_pc # "idle" /\ dl_city \in Supported) =>
          /\ SkipResult <=> dl_file_before # <<>>
          /\ dl_file_before = <<>> => Len(dl_requests) = 1
    /\ SkipResult => dl_origin \in {"preexisting", "complete", "cut_off"}
    /\ dl_origin = "complete" => "downloaded" \in Range(dl_history)
    /\ dl_origin = "cut_off" => "raised" \in Range(dl_history)
    /\ dl_origin = "none" <=> dl_file = <<>>

\* a call that requests the download again after a failed call
C29_Witness ==
    /\ dl_history = <<"failed">>
    /\ dl_calls = 2
    /\ dl_pc = "requesting"
    /\ dl_file = <<>>
    /\ Len(dl_requests) = 1

\* ========================================================================
\* Claims about the classification and the filter (SpecClassify, SpecFilter)
\* ========================================================================
\* str.upper() on ASCII text
upper_char(c) ==
    IF \E i \in 1..26 : LowerLetters[i] = c
    THEN UpperLetters[CHOOSE i \in 1..26 : LowerLetters[i] = c]
    ELSE c

upper(text) == [i \in 1..Len(text) |-> upper_char(text[i])]

\* str.swapcase() on ASCII text
swapcase(text) ==
    [i \in 1..Len(text) |->
        IF lower_char(text[i]) = text[i] THEN upper_char(text[i])
        ELSE lower_char(text[i])]

Recased(cats) ==
    {[kind |-> "str", text |-> t] :
        t \in {upper(cats.text), lower(cats.text), swapcase(cats.text)}}

Word_hotel == <<"h", "o", "t", "e", "l">>
Word_restaurant == <<"r", "e", "s", "t", "a", "u", "r", "a", "n", "t">>
Word_cafe == <<"c", "a", "f", "e">>

Mentions(word, cats) == contains(word, lower(cats.text))

\* C21: classify_tourism_establishment returns one of 'Hotels',
\* 'Restaurants', 'Other', 'Unknown' for every null or string input;
\* 'Unknown' exactly for a null input, 'Hotels' whenever the lower-cased
\* string contains 'hotel' (even next to a restaurant or cafe keyword),
\* 'Restaurants' exactly when it contains 'restaurant' or 'cafe' and no
\* 'hotel', and the same label for every re-casing of the string.
C21_ClassifyTotal ==
    cl_pc = "returned" =>
        /\ cl_ret \in {"Hotels", "Restaurants", "Other", "Unknown"}
        /\ cl_ret = "Unknown" <=> cl_categories.kind # "str"
        /\ cl_categories.kind = "str" =>
              /\ Mentions(Word_hotel, cl_categories) => cl_ret = "Hotels"
              /\ cl_ret = "Restaurants" <=>
                    /\ \/ Mentions(Word_restaurant, cl_categories)
                       \/ Mentions(Word_cafe, cl_categories)
                    /\ ~Mentions(Word_hotel, cl_categories)
              /\ \A other \in Recased(cl_categories) :
                    classify_tourism_establishment(other) = cl_ret

\* a mixed-case string naming a hotel and a cafe has been classified
C21_Witness ==
    /\ cl_pc = "returned"
    /\ cl_categories.kind = "str"
    /\ Mentions(Word_hotel, cl_categories)
    /\ Mentions(Word_cafe, cl_categories)
    /\ lower(cl_categories.text) # cl_categories.text
    /\ cl_ret = "Hotels"

ClassifyValues == {classify_tourism_establishment(c) : c \in ClassifyInputs}

\* a frame of one classified business that the filter finds under the type
CanSelect(type) ==
    \E c \in ClassifyInputs :
        LET row == classified([city |-> ft_city, state |-> ft_state,
                               categories |-> c])
        IN  filter_by_city_and_establishment_type(
                <<row>>, ft_city, ft_state, [str |-> TRUE, text |-> type]) # <<>>

\* C22: every establishment type the filter documents as valid
\* ('Restaurants', 'Hotels & Travel', 'Other', 'Unknown') is a value
\* classify_tourism_establishment produces, so a filter by that type over a
\* classified frame can select businesses.
C22_DocumentedTypesSelectable ==
    (/\ ft_pc = "returned"
     /\ establishment_types.str
     /\ establishment_types.text \in DocumentedTypes) =>
        /\ establishment_types.text \in ClassifyValues
        /\ CanSelect(establishment_types.text)

\* ========================================================================
\* Claims about validate_years_in_data (SpecYears)
\* ========================================================================
SupportedPath == yr_path[Len(yr_path)] \in {".gz", ".csv", ".parquet"}

SampledRows ==
    [i \in 1..(IF sample_size < Len(yr_file.rows) THEN sample_size
               ELSE Len(yr_file.rows)) |-> yr_file.rows[i]]

SampledYears ==
    {SampledRows[i][1] : i \in {j \in 1..Len(SampledRows) :
        SampledRows[j] # NoDate /\ ValidDate(SampledRows[j])}}

ExpectedSet ==
    IF expected_years.int THEN {expected_years.value}
    ELSE Range(expected_years.list)

YearsChecked ==
    /\ SupportedPath
    /\ yr_file.status = "ok"
    /\ date_column \in yr_file.columns

\* C23: validate_years_in_data always returns a (bool, dict) pair; with an
\* unsupported extension or without the date column (and when the file
\* cannot be read) the pair is (False, {'error': ...}); otherwise valid is
\* True exactly when every expected year occurs among the years of the
\* sampled rows, and missing_years is None exactly when valid is True.
C23_ValidIffYearsPresent ==
    yr_pc = "returned" =>
        /\ yr_ret.valid \in BOOLEAN
        /\ ~YearsChecked =>
              /\ yr_ret.valid = FALSE
              /\ DOMAIN yr_ret.info = {"error"}
        /\ YearsChecked =>
              /\ DOMAIN yr_ret.info = {"available_years", "missing_years", "valid"}
              /\ yr_ret.valid <=> ExpectedSet \subseteq SampledYears
              /\ yr_ret.info.valid = yr_ret.valid
              /\ yr_ret.info.missing_years.none <=> yr_ret.valid
              /\ yr_ret.info.missing_years.years = ExpectedSet \ SampledYears
              /\ Range(yr_ret.info.available_years) = SampledYears

\* an expected year that occurs only after the sampled rows is reported missing
C23_Witness ==
    /\ yr_pc = "returned"
    /\ YearsChecked
    /\ sample_size = 1
    /\ Len(yr_file.rows) = 2
    /\ expected_years = [int |-> TRUE, value |-> 2022]
    /\ yr_file.rows = <<<<2023, 7, 4>>, <<2022, 5, 1>>>>
    /\ yr_ret.valid = FALSE
    /\ yr_ret.info.missing_years = [none |-> FALSE, years |-> {2022}]

\* ========================================================================
\* Claims about check_existing_file (SpecCheckFile)
\* ========================================================================
LoadFails == cf_file.exists /\ cf_file_type \in DataTypes /\ cf_file.status # "ok"

\* C24: check_existing_file returns (False, None) when the file does not
\* exist and otherwise returns (True, info) without raising; a load that
\* fails is recorded in info['load_error'] and the call still returns, with
\* show_info True and with show_info False.
C24_AlwaysReturnsInfo ==
    cf_pc # "idle" =>
        /\ cf_pc = "returned"
        /\ ~cf_file.exists => cf_ret = [exists |-> FALSE, info |-> <<>>]
        /\ cf_file.exists =>
              /\ cf_ret.exists = TRUE
              /\ {"path", "size_mb"} \subseteq DOMAIN cf_ret.info
        /\ LoadFails => "load_error" \in DOMAIN cf_ret.info

\* ========================================================================
\* Claims about merge_listings_reviews (SpecMerge)
\* ========================================================================
FilterYears ==
    IF year_filter.kind = "int" THEN {year_filter.value}
    ELSE IF year_filter.kind = "list" THEN Range(year_filter.list)
    ELSE {}

YearOfReview(date) == IF date # NoDate /\ ValidDate(date) THEN {date[1]} ELSE {}

PassesYearFilter(review) ==
    year_filter.kind = "None" \/ YearOfReview(review.date) \cap FilterYears # {}

MergedRowsOf(review) == {j \in 1..Len(merged) : merged[j].id_review = review.id}

HasListing(review) ==
    \E k \in 1..Len(mg_listings) : mg_listings[k].id = review.listing_id

\* C26: merge_listings_reviews keeps every review that passes the year
\* filter at least once (a review without a matching listing with null
\* listing fields), keeps all reviews when year_filter is None, and with an
\* int or a list of ints returns only rows whose review year is in the filter.
C26_FilteredLeftJoin ==
    mg_pc = "returned" =>
        /\ \A i \in 1..Len(mg_reviews) :
              PassesYearFilter(mg_reviews[i]) =>
                  /\ MergedRowsOf(mg_reviews[i]) # {}
                  /\ ~HasListing(mg_reviews[i]) =>
                        \A j \in MergedRowsOf(mg_reviews[i]) :
                            merged[j].id_listing = NaN /\ merged[j].name = NaN
        /\ year_filter.kind # "None" =>
              \A j \in 1..Len(merged) :
                  YearOfReview(merged[j].date) \cap FilterYears # {}

\* ========================================================================
\* Claims about download_yelp_with_complete_handling (SpecYelp)
\* ========================================================================
TargetNames ==
    IF target_files.none THEN {BusinessJson, ReviewJson, UserJson}
    ELSE Range(target_files.list)

AllTargetsExisted == \A n \in TargetNames : yl_dir_before[n] # "absent"

\* C25: when every file of target_files exists in download_dir the Kaggle
\* download API is not invoked and, with validate=False, the call returns
\* (True, ..., 'files_exist', None); the API is invoked at most once in a
\* call; success=True comes only with status 'files_exist' or 'downloaded'.
C25_NoDownloadWhenFilesExist ==
    yl_calls > 0 =>
        /\ AllTargetsExisted =>
              /\ yl_pc = "returned"
              /\ yl_api_calls = 0
              /\ download_dir = yl_dir_before
              /\ ~validate =>
                    /\ yl_ret.success = TRUE
                    /\ yl_ret.status = "files_exist"
                    /\ yl_ret.validation_results = NoResults
        /\ yl_api_calls <= 1
        /\ (yl_pc = "returned" /\ yl_ret.success) =>
              yl_ret.status \in {"files_exist", "downloaded"}

\* a second call that finds the files the first call downloaded
C25_Witness ==
    /\ yl_calls = 2
    /\ yl_pc = "returned"
    /\ target_files.none
    /\ ~validate
    /\ \A n \in TargetNames : yl_dir_before[n] = "good"
    /\ yl_api_calls = 0
    /\ yl_ret.status = "files_exist"

====
